---- MODULE Spec2Model ----
(***************************************************************************)
(* Model of the plan-and-repair run of the deployer app:                   *)
(*   handleFileSelect -> processZipFile -> generateDeploymentPlanAndFixes  *)
(*                                                                         *)
(* A JavaScript string that is a file path is a sequence of tokens: the    *)
(* characters "/", "\\", "." and " " are tokens of their own, every other  *)
(* token is a non-empty run of characters none of which is one of these.   *)
(* File contents and plan fields are opaque strings; Length gives the      *)
(* number of characters of a content.  A JavaScript object                 *)
(* used as a mapping is the sequence of its own [name, content] entries    *)
(* in insertion order, with unique names; names are ordinary file paths,   *)
(* never names of Object.prototype members.  Loops of the code are         *)
(* recursive functions, so that each argument is a value.                  *)
(***************************************************************************)
EXTENDS Integers, Sequences, FiniteSets, TLC

(***************************************************************************)
(* Bounds of the model                                                     *)
(***************************************************************************)
\* largest number of files in an archive whose contents can fill the prompt
MaxPromptFiles == 3
\* longest string, in tokens, sanitizePath is called with
MaxPathLen == 5
\* longest fixedFiles array a model response carries
MaxBatch == 2
\* largest number of files in the extracted archive
MaxInitFiles == 2
\* cap on the ghost counter of generateContent invocations
MaxCalls == 5
\* invocations of handleFileSelect that are in flight at the same time
MaxRuns == 2
\* invocations of the async handlers of DeploymentSection in flight at the same time
MaxPending == 2

(***************************************************************************)
(* Program constants                                                       *)
(***************************************************************************)
MAX_ITERATIONS == 3
MAX_PROMPT_CONTENT_SIZE == 200000

(***************************************************************************)
(* Paths, contents and model responses the inputs are drawn from           *)
(***************************************************************************)
ReplitPath == <<".", "replit">>
AppPy      == <<"app", ".", "py">>
Dockerfile == <<"Dockerfile">>
PackageJson == <<"package", ".", "json">>

\* files an uploaded archive may hold: .replit (possibly empty), app.py and
\* package.json
InitEntries ==
    { [name |-> ReplitPath, content |-> ""],
      [name |-> ReplitPath, content |-> "run"],
      [name |-> AppPy, content |-> "print(1)"],
      [name |-> PackageJson, content |-> "{}"] }

\* raw fileName strings the model may return:
\*   " .\Dockerfile", "app.py" and "../.."
RawNames ==
    { <<" ", ".", "\\", "Dockerfile">>,
      <<"app", ".", "py">>,
      <<".", ".", "/", ".", ".">> }
\* fileContent strings the model may return
FixContents == {"print(1)", "print(2)"}

Undefined == "<undefined>"

(***************************************************************************)
(* JavaScript objects used as name -> content mappings                     *)
(***************************************************************************)
\* an own property of an object
Entry == [name : Seq(STRING), content : STRING]

\* an object: its own entries in insertion order
Obj == Seq(Entry)

\* obj.hasOwnProperty(name)
HasOwn(obj, name) == \E k \in 1..Len(obj) : obj[k].name = name

IndexOf(obj, name) == CHOOSE k \in 1..Len(obj) : obj[k].name = name

\* obj[name]
Get(obj, name) ==
    IF HasOwn(obj, name)
    THEN obj[IndexOf(obj, name)].content
    ELSE Undefined

\* obj[name] = content
Put(obj, name, content) ==
    IF HasOwn(obj, name)
    THEN [obj EXCEPT ![IndexOf(obj, name)] = [name |-> name, content |-> content]]
    ELSE Append(obj, [name |-> name, content |-> content])

\* truthiness of a string-or-undefined value
Truthy(v) == v # Undefined /\ v # ""

KeySet(obj) == {obj[k].name : k \in 1..Len(obj)}

(***************************************************************************)
(* sanitizePath                                                            *)
(***************************************************************************)
\* a path string: a sequence of tokens
Str == Seq(STRING)

IsWhitespace(t) == t = " "

TrimStart[s \in Str] ==
    IF s # <<>> /\ IsWhitespace(Head(s)) THEN TrimStart[Tail(s)] ELSE s

TrimEnd[s \in Str] ==
    IF s # <<>> /\ IsWhitespace(s[Len(s)])
    THEN TrimEnd[SubSeq(s, 1, Len(s) - 1)]
    ELSE s

\* mutant: only the start of the string is trimmed
Trim_StartOnly(s) == TrimStart[s]

\* .trim()
Trim(s) == TrimEnd[TrimStart[s]]

\* .replace(/\\/g, '/')
ReplaceBackslashes[s \in Str] ==
    [k \in 1..Len(s) |-> IF s[k] = "\\" THEN "/" ELSE s[k]]

\* the components of s, after the components acc and the unfinished component cur
SplitRec[s \in Str, cur \in Str, acc \in Seq(Str)] ==
    IF s = <<>> THEN Append(acc, cur)
    ELSE IF Head(s) = "/" THEN SplitRec[Tail(s), <<>>, Append(acc, cur)]
    ELSE SplitRec[Tail(s), Append(cur, Head(s)), acc]

\* .split('/')
Split(s) == SplitRec[s, <<>>, <<>>]

\* mutant: the test for '..' is missing
ValidComponent_AllowsDotDot(c) == c # <<>> /\ c # <<".">>

\* component && component !== '.' && component !== '..'
ValidComponent(c) == c # <<>> /\ c # <<".">> /\ c # <<".", ".">>

\* .join('/')
Join[segs \in Seq(Str)] ==
    IF segs = <<>> THEN <<>>
    ELSE IF Len(segs) = 1 THEN segs[1]
    ELSE segs[1] \o <<"/">> \o Join[Tail(segs)]

\* mutant: backslashes are not converted
sanitizePath_KeepsBackslashes(path) ==
    IF path = <<>> THEN <<>>
    ELSE Join[SelectSeq(Split(Trim(path)), ValidComponent)]

sanitizePath(path) ==
    IF path = <<>> THEN <<>>
    ELSE Join[SelectSeq(Split(ReplaceBackslashes[Trim(path)]), ValidComponent)]

(***************************************************************************)
(* Inputs: extracted archives and model responses                          *)
(***************************************************************************)
\* the mappings processZipFile can extract: distinct names, any order
InitObjects ==
    { o \in UNION {[1..n -> InitEntries] : n \in 0..MaxInitFiles} :
        \A j, k \in 1..Len(o) : j # k => o[j].name # o[k].name }

DraftA ==
    [projectType |-> "node", renderYaml |-> "yamlA", buildCommand |-> "npm ci",
     startCommand |-> "npm start", explanation |-> "explA"]
DraftB ==
    [projectType |-> "python", renderYaml |-> "yamlB", buildCommand |-> "pip install",
     startCommand |-> "python app.py", explanation |-> "explB"]
Drafts == {DraftA, DraftB}

FixEntries == [fileName : RawNames, fileContent : FixContents]
Batches == UNION {[1..n -> FixEntries] : n \in 0..MaxBatch}

ResultOf(d, fixes) ==
    [projectType |-> d.projectType, renderYaml |-> d.renderYaml,
     buildCommand |-> d.buildCommand, startCommand |-> d.startCommand,
     explanation |-> d.explanation, fixedFiles |-> fixes]

NoDraft ==
    [projectType |-> Undefined, renderYaml |-> Undefined, buildCommand |-> Undefined,
     startCommand |-> Undefined, explanation |-> Undefined]

\* no response received in the current iteration
NoResponse == [kind |-> "none", result |-> ResultOf(NoDraft, <<>>)]

\* the awaited generateContent call rejected (network or HTTP error)
Rejected == [kind |-> "rejected", result |-> ResultOf(NoDraft, <<>>)]

\* what a completed generateContent call can resolve to:
\*   "no_text"       response.text is undefined
\*   "unparsable"    response.text is not JSON
\*   "no_fixedFiles" JSON whose fixedFiles is missing (result.fixedFiles.length throws)
\*   "ok"            JSON with the five plan fields and a fixedFiles array
Responses ==
    { [kind |-> k, result |-> ResultOf(NoDraft, <<>>)] : k \in {"no_text", "unparsable"} }
    \cup { [kind |-> "no_fixedFiles", result |-> ResultOf(d, <<>>)] : d \in Drafts }
    \cup { [kind |-> "ok", result |-> ResultOf(d, b)] : d \in Drafts, b \in Batches }

Null == <<>>

(***************************************************************************)
(* generateDeploymentPlanAndFixes: the pure parts                          *)
(***************************************************************************)
\* mutants of the loop test: one iteration too many, never false, never true
LoopCondition_OffByOne(k) == k <= MAX_ITERATIONS
LoopCondition_Always(k) == TRUE
LoopCondition_Never(k) == k > MAX_ITERATIONS

\* for (let i = 0; i < MAX_ITERATIONS; i++)
LoopCondition(k) == k < MAX_ITERATIONS

\* mutant: the first draft is kept, later drafts are ignored
NewPlan_KeepFirst(prev, result) ==
    IF prev # Null THEN prev[1]
    ELSE [projectType |-> result.projectType, renderYaml |-> result.renderYaml,
          buildCommand |-> result.buildCommand, startCommand |-> result.startCommand,
          explanation |-> result.explanation, suggestedFixes |-> <<>>]

\* mutant: each draft's suggestedFixes is filled from the model's fixedFiles
NewPlan_FixesFromModel(prev, result) ==
    [projectType |-> result.projectType, renderYaml |-> result.renderYaml,
     buildCommand |-> result.buildCommand, startCommand |-> result.startCommand,
     explanation |-> result.explanation,
     suggestedFixes |->
        [k \in 1..Len(result.fixedFiles) |->
            [fileName |-> result.fixedFiles[k].fileName,
             description |-> "fix",
             suggestedCode |-> result.fixedFiles[k].fileContent]]]

\* finalPlan = { ...result's five fields, suggestedFixes: [] }
\* (prev is the value of finalPlan that the assignment replaces)
NewPlan(prev, result) ==
    [projectType |-> result.projectType, renderYaml |-> result.renderYaml,
     buildCommand |-> result.buildCommand, startCommand |-> result.startCommand,
     explanation |-> result.explanation, suggestedFixes |-> <<>>]

\* a fixedFiles array
FixList == Seq([fileName : Str, fileContent : STRING])

\* mutant: a fix is kept whatever its sanitized name
KeepsFix_Always(cleanFileName) == TRUE

\* if (cleanFileName)
KeepsFix(cleanFileName) == cleanFileName # <<>>

\* the assignment that keeps the first content assigned to a name
AddUpdate_KeepFirst[acc \in Obj, cleanFileName \in Str, fileContent \in STRING] ==
    IF KeepsFix(cleanFileName) /\ ~HasOwn(acc, cleanFileName)
    THEN Put(acc, cleanFileName, fileContent)
    ELSE acc

\* if (cleanFileName) newUpdates[cleanFileName] = fix.fileContent
AddUpdate[acc \in Obj, cleanFileName \in Str, fileContent \in STRING] ==
    IF KeepsFix(cleanFileName) THEN Put(acc, cleanFileName, fileContent) ELSE acc

\* newUpdates after the loop has run over fixes, starting from acc
BuildUpdates[fixes \in FixList, acc \in Obj] ==
    IF fixes = <<>> THEN acc
    ELSE BuildUpdates[Tail(fixes),
             AddUpdate[acc, sanitizePath(Head(fixes).fileName), Head(fixes).fileContent]]

BuildUpdates_KeepFirst[fixes \in FixList, acc \in Obj] ==
    IF fixes = <<>> THEN acc
    ELSE BuildUpdates_KeepFirst[Tail(fixes),
             AddUpdate_KeepFirst[acc, sanitizePath(Head(fixes).fileName),
                                 Head(fixes).fileContent]]

\* mutant: the first fix for a name is kept and later ones are ignored
newUpdates_KeepFirst(fixedFiles) == BuildUpdates_KeepFirst[fixedFiles, <<>>]

\* const newUpdates = {}; for (const fix of result.fixedFiles) ...
newUpdates(fixedFiles) == BuildUpdates[fixedFiles, <<>>]

\* mutant: every update is written and counted as a change
NeedsWrite_Always(files, fileName, content) == TRUE

\* mutant: the content comparison is missing, only new names are written
NeedsWrite_OnlyNew(files, fileName, content) == ~HasOwn(files, fileName)

\* !currentFiles.hasOwnProperty(fileName) || currentFiles[fileName] !== content
NeedsWrite(files, fileName, content) ==
    ~HasOwn(files, fileName) \/ Get(files, fileName) # content

\* currentFiles and filesWereUpdated during the merge
MergeState == [files : Obj, filesWereUpdated : BOOLEAN]

\* if (NeedsWrite) { currentFiles[fileName] = content; filesWereUpdated = true; }
ApplyUpdate[st \in MergeState, e \in Entry] ==
    IF NeedsWrite(st.files, e.name, e.content)
    THEN [files |-> Put(st.files, e.name, e.content), filesWereUpdated |-> TRUE]
    ELSE st

\* currentFiles and filesWereUpdated after the loop has run over updates
ApplyRec[updates \in Obj, st \in MergeState] ==
    IF updates = <<>> THEN st
    ELSE ApplyRec[Tail(updates), ApplyUpdate[st, Head(updates)]]

\* mutant: the merge result holds the entries of the batch only
ApplyUpdates_FromEmpty(files, updates) ==
    ApplyRec[updates, [files |-> <<>>, filesWereUpdated |-> FALSE]]

\* for (const [fileName, content] of Object.entries(newUpdates)) ...
ApplyUpdates(files, updates) ==
    ApplyRec[updates, [files |-> files, filesWereUpdated |-> FALSE]]

\* mutant: the catch block swallows the parse error
ErrorOf_Swallow(kind) ==
    CASE kind = "rejected" -> "transport"
      [] kind = "no_text" -> "type_error"
      [] kind = "no_fixedFiles" -> "invalid_response"
      [] OTHER -> "none"

\* what the loop body throws for a settled call: a rejection propagates from
\* the await, response.text.trim() throws outside the try, JSON.parse and
\* result.fixedFiles.length throw inside it and the catch rethrows
ErrorOf(kind) ==
    CASE kind = "rejected" -> "transport"
      [] kind = "no_text" -> "type_error"
      [] kind = "unparsable" -> "invalid_response"
      [] kind = "no_fixedFiles" -> "invalid_response"
      [] OTHER -> "none"

\* mutant: running out of iterations is treated as a failure
RunFailed_OnExhaustion(plan, k) == plan = Null \/ k >= MAX_ITERATIONS

\* if (!finalPlan) throw    (k is the loop index the loop ended with)
RunFailed(plan, k) == plan = Null

\* mutant: the empty-fixedFiles break is missing and the other one is guarded
LoopBreaks_OnlyNoOp(fixedFiles, filesWereUpdated) ==
    Len(fixedFiles) > 0 /\ ~filesWereUpdated

\* the two break statements of the loop body
LoopBreaks(fixedFiles, filesWereUpdated) ==
    Len(fixedFiles) = 0 \/ ~filesWereUpdated

ModifiedDescription == "This file was modified to ensure compatibility with the Render hosting environment."
AddedDescription == "This file was added to configure the project for deployment on Render."

FixOf(e, description) ==
    [fileName |-> e.name, description |-> description, suggestedCode |-> e.content]

MapFixes(entries, description) ==
    [k \in 1..Len(entries) |-> FixOf(entries[k], description)]

\* mutant: the content comparison is missing
IsModified_AnyExisting(initial, e) == HasOwn(initial, e.name)

IsModified(initial, e) ==
    HasOwn(initial, e.name) /\ Get(initial, e.name) # e.content

IsAdded(initial, e) == ~HasOwn(initial, e.name)

\* the two for-in loops over currentFiles that fill suggestedFixes
ComputeSuggestedFixes(initial, current) ==
    MapFixes(SelectSeq(current, LAMBDA e : IsModified(initial, e)), ModifiedDescription)
    \o MapFixes(SelectSeq(current, LAMBDA e : IsAdded(initial, e)), AddedDescription)

(***************************************************************************)
(* Prompt assembly: the files of the working set that go into the prompt   *)
(***************************************************************************)
RenderYaml == <<"render", ".", "yaml">>
YarnLock == <<"yarn", ".", "lock">>
ServerJs == <<"server", ".", "js">>
DistOutJs == <<"Dist", "/", "out", ".", "js">>
AppTestJs == <<"app", ".", "test", ".", "js">>

priorityFiles ==
    << ReplitPath, PackageJson, RenderYaml, <<"pyproject", ".", "toml">>,
       <<"requirements", ".", "txt">>, <<"go", ".", "mod">>,
       <<"next", ".", "config", ".", "js">>, <<"vite", ".", "config", ".", "js">>,
       <<"svelte", ".", "config", ".", "js">>, <<"package-lock", ".", "json">>,
       YarnLock >>

\* contents that stand for strings of 100000 and of 100001 characters
Chars100000 == "<100000 characters>"
Chars100001 == "<100001 characters>"

\* content.length
Length(content) ==
    CASE content = "" -> 0
      [] content = "{}" -> 2
      [] content = "run" -> 3
      [] content \in {"print(1)", "print(2)"} -> 8
      [] content = Chars100000 -> 100000
      [] content = Chars100001 -> 100001

\* the lower-case form of a chunk (the regular expressions have the i flag)
Lower(t) ==
    CASE t = "Dist" -> "dist"
      [] t = "LICENSE" -> "license"
      [] t = "README" -> "readme"
      [] OTHER -> t

\* /\.(js|ts|jsx|tsx|py|go|html|css|scss|sh|svelte|vue|rb|json)$/i
sourceFileExtensions(fileName) ==
    /\ Len(fileName) >= 2
    /\ fileName[Len(fileName) - 1] = "."
    /\ Lower(fileName[Len(fileName)]) \in
          {"js", "ts", "jsx", "tsx", "py", "go", "html", "css", "scss", "sh",
           "svelte", "vue", "rb", "json"}

\* /^(node_modules|dist|build|out|coverage)\/|\.(test|spec)\.|(LICENSE|README\.md)$/i
\* (of the chunks of the model only LICENSE ends with "license" and only
\* README ends with "readme")
excludedFilesOrDirs(fileName) ==
    \/ /\ Len(fileName) >= 2
       /\ Lower(fileName[1]) \in {"node_modules", "dist", "build", "out", "coverage"}
       /\ fileName[2] = "/"
    \/ \E k \in 1..(Len(fileName) - 2) :
          /\ fileName[k] = "."
          /\ Lower(fileName[k + 1]) \in {"test", "spec"}
          /\ fileName[k + 2] = "."
    \/ /\ Len(fileName) >= 1
       /\ Lower(fileName[Len(fileName)]) = "license"
    \/ /\ Len(fileName) >= 3
       /\ Lower(fileName[Len(fileName) - 2]) = "readme"
       /\ fileName[Len(fileName) - 1] = "."
       /\ Lower(fileName[Len(fileName)]) = "md"

\* two spellings of one file name: with the precomposed letter U+00E9, and
\* with the letter e followed by the combining accent U+0301. They are
\* different strings, hence different keys, and canonically equivalent
CafeNfcJs == <<"caf+U00E9", ".", "js">>
CafeNfdJs == <<"cafe+U0301", ".", "js">>

\* position of a file name of the model in the order of localeCompare:
\* a.localeCompare(b) is 0 for canonically equivalent strings (the other
\* names that can pass the filter differ in their first letter)
CollationRank(fileName) ==
    CASE fileName = AppTestJs -> 1
      [] fileName = AppPy -> 2
      [] fileName \in {CafeNfcJs, CafeNfdJs} -> 3
      [] fileName = DistOutJs -> 4
      [] fileName = PackageJson -> 5
      [] fileName = ServerJs -> 6
      [] OTHER -> 0

\* a.localeCompare(b) <= 0
NotAfter(a, b) == CollationRank(a) <= CollationRank(b)

\* the environment of the assembly: the working set it reads, the subset
\* and the size it builds
PromptState == [currentFiles : Obj, filesForPrompt : Obj, currentSize : Nat]

\* mutant: a file taken into the prompt is removed from the working set
IncludeFile_DeletesFromWorkingSet(st, fileName, content) ==
    [currentFiles |-> SelectSeq(st.currentFiles, LAMBDA e : e.name # fileName),
     filesForPrompt |-> Put(st.filesForPrompt, fileName, content),
     currentSize |-> st.currentSize + Length(content)]

\* filesForPrompt[fileName] = content; currentSize += content.length;
IncludeFile(st, fileName, content) ==
    [currentFiles |-> st.currentFiles,
     filesForPrompt |-> Put(st.filesForPrompt, fileName, content),
     currentSize |-> st.currentSize + Length(content)]

\* mutant: the size test of the priority phase is missing
PriorityFits_Always(currentSize, content) == TRUE

\* currentSize + content.length <= MAX_PROMPT_CONTENT_SIZE
PriorityFits(currentSize, content) ==
    currentSize + Length(content) <= MAX_PROMPT_CONTENT_SIZE

\* if (currentFiles[fileName]) { if (fits) { include } }
TakePriority[st \in PromptState, fileName \in Str] ==
    IF /\ Truthy(Get(st.currentFiles, fileName))
       /\ PriorityFits(st.currentSize, Get(st.currentFiles, fileName))
    THEN IncludeFile(st, fileName, Get(st.currentFiles, fileName))
    ELSE st

\* for (const fileName of priorityFiles) ...
PriorityPhase[names \in Seq(Str), st \in PromptState] ==
    IF names = <<>> THEN st
    ELSE PriorityPhase[Tail(names), TakePriority[st, Head(names)]]

\* the filter of otherFiles
IsCandidate(filesForPrompt, fileName) ==
    /\ ~Truthy(Get(filesForPrompt, fileName))
    /\ sourceFileExtensions(fileName)
    /\ ~excludedFilesOrDirs(fileName)

\* insertion of e into a sorted array, after the entries that are not after it
InsertSorted[sorted \in Obj, e \in Entry] ==
    IF sorted = <<>> THEN <<e>>
    ELSE IF NotAfter(Head(sorted).name, e.name)
         THEN <<Head(sorted)>> \o InsertSorted[Tail(sorted), e]
         ELSE <<e>> \o sorted

\* .sort(([a], [b]) => a.localeCompare(b))
SortByName[entries \in Obj] ==
    IF entries = <<>> THEN <<>>
    ELSE InsertSorted[SortByName[SubSeq(entries, 1, Len(entries) - 1)],
                      entries[Len(entries)]]

\* Object.entries(currentFiles).filter(...).sort(...)
otherFiles(st) ==
    SortByName[SelectSeq(st.currentFiles,
                         LAMBDA e : IsCandidate(st.filesForPrompt, e.name))]

\* mutant: a candidate that does not fit is passed over and the loop goes on
RestAfterOverflow_Continue(rest) == rest

\* break: none of the candidates after the one that does not fit is looked at
RestAfterOverflow(rest) == <<>>

\* for (const [fileName, content] of otherFiles) { if (too big) break; include }
CandidatePhase[candidates \in Obj, st \in PromptState] ==
    IF candidates = <<>> THEN st
    ELSE IF st.currentSize + Length(Head(candidates).content) > MAX_PROMPT_CONTENT_SIZE
         THEN CandidatePhase[RestAfterOverflow(Tail(candidates)), st]
         ELSE CandidatePhase[Tail(candidates),
                  IncludeFile(st, Head(candidates).name, Head(candidates).content)]

\* the state of the assembly after the priority phase
AfterPriority(files) ==
    PriorityPhase[priorityFiles,
                  [currentFiles |-> files, filesForPrompt |-> <<>>, currentSize |-> 0]]

\* the state of the assembly when the prompt is built
AssemblePrompt(files) ==
    CandidatePhase[otherFiles(AfterPriority(files)), AfterPriority(files)]

(***************************************************************************)
(* App: the reducer of the application state                               *)
(***************************************************************************)
\* const initialState: AppState (a nullable field is Null or <<value>>)
initialState ==
    [status |-> "idle", zipFile |-> Null, error |-> Null,
     deploymentPlan |-> Null, fixedProjectFiles |-> Null, progressLogs |-> <<>>]

\* mutant: the last entry keeps its status
WithLastStatus_Unchanged(logs, status) == logs

\* logs.map((log, index) => index === logs.length - 1 ? { ...log, status } : log)
WithLastStatus(logs, status) ==
    [k \in 1..Len(logs) |->
        IF k = Len(logs) THEN [logs[k] EXCEPT !.status = status] ELSE logs[k]]

\* logs.map(log => ({ ...log, status: 'complete' }))
AllComplete(logs) ==
    [k \in 1..Len(logs) |-> [logs[k] EXCEPT !.status = "complete"]]

\* case 'PROCESSING_ERROR'
Failed(s, message) ==
    [s EXCEPT !.status = "error", !.error = <<message>>,
              !.progressLogs = WithLastStatus(s.progressLogs, "error")]

\* function appReducer(state, action) (the id of a log entry is left out)
appReducer(s, action) ==
    CASE action.type = "START_PROCESSING" ->
            [initialState EXCEPT !.status = "processing",
                                 !.zipFile = <<action.payload>>]
      [] action.type = "ADD_PROGRESS" ->
            [s EXCEPT !.progressLogs =
                Append(WithLastStatus(s.progressLogs, "complete"),
                       [message |-> action.payload, status |-> "pending"])]
      [] action.type = "PROCESSING_SUCCESS" ->
            [s EXCEPT !.status = "success",
                      !.deploymentPlan = <<action.payload.plan>>,
                      !.fixedProjectFiles = <<action.payload.finalFiles>>,
                      !.progressLogs = AllComplete(s.progressLogs)]
      [] action.type = "PROCESSING_ERROR" -> Failed(s, action.payload)
      [] action.type = "RESET" -> initialState
      [] OTHER -> s

\* dispatch({ type: 'ADD_PROGRESS', payload: message })
progressCallback(s, message) ==
    appReducer(s, [type |-> "ADD_PROGRESS", payload |-> message])

\* dispatch({ type: 'PROCESSING_ERROR', payload: errorMessage })
DispatchError(s, errorMessage) ==
    appReducer(s, [type |-> "PROCESSING_ERROR", payload |-> errorMessage])

\* dispatch({ type: 'PROCESSING_SUCCESS', payload: { plan, finalFiles } })
DispatchSuccess(s, payload) ==
    appReducer(s, [type |-> "PROCESSING_SUCCESS", payload |-> payload])

\* the progress messages (the number of fixes of 'Applying N file fix(es)...'
\* is left out)
Unzipping == "Unzipping project archive..."
Extracted == "Extracted and read N text files."
Preparing == "Preparing project files for Gemini analysis..."
Sending(iteration) ==
    CASE iteration = 1 -> "Sending analysis request to Gemini (Iteration 1)..."
      [] iteration = 2 -> "Sending analysis request to Gemini (Iteration 2)..."
      [] iteration = 3 -> "Sending analysis request to Gemini (Iteration 3)..."
Received == "Received deployment plan and file corrections."
Stable == "Project state is stable. Finalizing plan."
Applying == "Applying N file fix(es)..."
NoNewChanges == "No new changes detected. Finalizing plan."
Complete == "Analysis complete. Rendering results."

\* no invocation of handleFileSelect has been made
NoRuns == <<>>

(***************************************************************************)
(* DeploymentSection: the state of the component                           *)
(***************************************************************************)
\* the useState hooks of DeploymentSection at mount (a nullable hook is Null
\* or <<value>>; the two modal flags are left out)
initialSection ==
    [githubToken |-> Null, githubUser |-> Null, repoName |-> "",
     githubStatus |-> "idle", githubError |-> Null, repoSuccessData |-> Null,
     isDiagnosingError |-> FALSE,
     renderToken |-> Null, renderOwners |-> <<>>, selectedRenderOwnerId |-> Null,
     renderStatus |-> "idle", renderError |-> Null, renderSuccessData |-> Null]

\* sessionStorage without tokens
NoTokens == [github_pat |-> Null, render_pat |-> Null]

\* what the source host and the hosting provider have been asked to do
NothingRequested == [repos |-> {}, commit |-> Null, pushed |-> {}, blueprint |-> Null]

(***************************************************************************)
(* State                                                                   *)
(***************************************************************************)
VARIABLES
    apiKey,               \* process.env.API_KEY is set
    initialProjectFiles,  \* allFileContents of processZipFile, the run's input object
    currentFiles,         \* working file set
    finalPlan,            \* Null or <<plan>>
    i,                    \* loop index
    response,             \* response of the model call of the current iteration
    result,               \* Null or <<[plan, finalFiles]>>: value the run resolves to
    error,                \* "none" or the error the run rejects with
    pc,                   \* position of handleFileSelect
    calls,                \* ghost: generateContent invocations so far
    changes,              \* ghost: iterations whose merge changed currentFiles
    fixesAssigned,        \* ghost: executions of finalPlan.suggestedFixes = ...
    filesForPrompt,       \* subset of the working set built for the current iteration
    inFlight,             \* ghost: generateContent calls issued and not yet settled
    merges,               \* ghost: responses whose fixes have been merged
    rawPath,              \* argument of a call of sanitizePath on its own
    cleanPath             \* value that call returned

VARIABLES
    state,                \* App: the state of useReducer(appReducer, initialState)
    runs,                 \* App: the invocations of handleFileSelect, in order
    downloaded            \* App: Null or <<archive>>: the last archive saved

appVars == <<state, runs, downloaded>>

VARIABLES
    section,              \* DeploymentSection: its useState hooks
    pending,              \* DeploymentSection: invocations of its async handlers
    sessionStorage,       \* the tokens kept in sessionStorage
    requested             \* ghost: repositories created, last commit issued, URLs pushed, last blueprint issued

pushVars == <<section, pending, sessionStorage, requested>>

VARIABLES
    duo                   \* two runs of generateDeploymentPlanAndFixes and the objects they hold

\* no run of the pair has been started
NoDuo == [heap |-> <<>>, run |-> <<>>]

\* the variables of the React components
uiVars == <<appVars, pushVars>>

\* DeploymentSection before it is mounted
PushInitial ==
    /\ section = initialSection
    /\ pending = <<>>
    /\ sessionStorage = NoTokens
    /\ requested = NothingRequested

\* the components as they are mounted
UiInitial ==
    /\ state = initialState
    /\ runs = NoRuns
    /\ downloaded = Null
    /\ PushInitial

vars == <<apiKey, initialProjectFiles, currentFiles, finalPlan, i, response,
          result, error, pc, calls, changes, fixesAssigned, filesForPrompt,
          inFlight, merges, rawPath, cleanPath, uiVars, duo>>

\* the variables of the run of handleFileSelect
runVars == <<apiKey, initialProjectFiles, currentFiles, finalPlan, i, response,
             result, error, calls, changes, fixesAssigned, filesForPrompt,
             inFlight, merges>>

\* the variables of the run and of the call of sanitizePath
coreVars == <<runVars, pc, rawPath, cleanPath>>

Init ==
    /\ apiKey \in BOOLEAN
    /\ initialProjectFiles \in InitObjects
    /\ currentFiles = <<>>
    /\ finalPlan = Null
    /\ i = 0
    /\ response = NoResponse
    /\ result = Null
    /\ error = "none"
    /\ pc = "processZip"
    /\ calls = 0
    /\ changes = 0
    /\ fixesAssigned = 0
    /\ filesForPrompt = <<>>
    /\ inFlight = 0
    /\ merges = 0
    /\ rawPath = <<>>
    /\ cleanPath = <<>>
    /\ UiInitial
    /\ duo = NoDuo

Throw(e) ==
    /\ pc' = "thrown"
    /\ error' = e

\* JSZip is not loaded, or JSZip.loadAsync rejects
ProcessZipFileFails ==
    /\ pc = "processZip"
    /\ UNCHANGED <<rawPath, cleanPath, uiVars, duo>>
    /\ Throw("zip_load")
    /\ UNCHANGED <<apiKey, initialProjectFiles, currentFiles, finalPlan, i,
                   response, result, calls, changes, fixesAssigned,
                   filesForPrompt, inFlight, merges>>

\* const replitConfig = allFileContents['.replit']; if (!replitConfig) throw
ProcessZipFile ==
    /\ pc = "processZip"
    /\ UNCHANGED <<rawPath, cleanPath, uiVars, duo>>
    /\ IF ~Truthy(Get(initialProjectFiles, ReplitPath))
       THEN Throw("missing_replit")
       ELSE pc' = "enter" /\ UNCHANGED error
    /\ UNCHANGED <<apiKey, initialProjectFiles, currentFiles, finalPlan, i,
                   response, result, calls, changes, fixesAssigned,
                   filesForPrompt, inFlight, merges>>

\* entry of generateDeploymentPlanAndFixes up to the loop
EnterRun ==
    /\ pc = "enter"
    /\ UNCHANGED <<rawPath, cleanPath, uiVars, duo>>
    /\ IF ~apiKey
       THEN Throw("api_key") /\ UNCHANGED <<currentFiles, finalPlan, i>>
       ELSE /\ currentFiles' = initialProjectFiles
            /\ finalPlan' = Null
            /\ i' = 0
            /\ pc' = "loop"
            /\ UNCHANGED error
    /\ UNCHANGED <<apiKey, initialProjectFiles, response, result, calls,
                   changes, fixesAssigned, filesForPrompt, inFlight, merges>>

\* mutant: the call is started and the loop goes on without awaiting it
PcAfterIssue_FireAndForget == "loop"

\* const response = await ai.models.generateContent(...): the run is
\* suspended until the call settles
PcAfterIssue == "awaiting"

\* loop test true: assemble the prompt and invoke ai.models.generateContent
IssueCall ==
    /\ pc = "loop"
    /\ UNCHANGED <<rawPath, cleanPath, uiVars, duo>>
    /\ LoopCondition(i)
    /\ calls < MaxCalls
    /\ \E st \in {AssemblePrompt(currentFiles)} :
          /\ currentFiles' = st.currentFiles
          /\ filesForPrompt' = st.filesForPrompt
    /\ calls' = calls + 1
    /\ inFlight' = inFlight + 1
    /\ response' = NoResponse
    /\ pc' = PcAfterIssue
    /\ UNCHANGED <<apiKey, initialProjectFiles, finalPlan, i,
                   result, error, changes, fixesAssigned, merges>>

\* loop test false
LoopExit ==
    /\ pc = "loop"
    /\ UNCHANGED <<rawPath, cleanPath, uiVars, duo>>
    /\ ~LoopCondition(i)
    /\ pc' = "afterLoop"
    /\ UNCHANGED <<apiKey, initialProjectFiles, currentFiles, finalPlan, i,
                   response, result, error, calls, changes, fixesAssigned,
                   filesForPrompt, inFlight, merges>>

\* the awaited call rejects
ModelRejects ==
    /\ pc = "awaiting"
    /\ UNCHANGED <<rawPath, cleanPath, uiVars, duo>>
    /\ response' = Rejected
    /\ pc' = "received"
    /\ inFlight' = inFlight - 1
    /\ UNCHANGED <<apiKey, initialProjectFiles, currentFiles, finalPlan, i,
                   result, error, calls, changes, fixesAssigned,
                   filesForPrompt, merges>>

\* the awaited call resolves
ModelResolves ==
    /\ pc = "awaiting"
    /\ UNCHANGED <<rawPath, cleanPath, uiVars, duo>>
    /\ response' \in Responses
    /\ pc' = "received"
    /\ inFlight' = inFlight - 1
    /\ UNCHANGED <<apiKey, initialProjectFiles, currentFiles, finalPlan, i,
                   result, error, calls, changes, fixesAssigned,
                   filesForPrompt, merges>>

\* rest of the loop body: parse, take the draft, merge the fixes, decide
ProcessResponse ==
    /\ pc = "received"
    /\ UNCHANGED <<rawPath, cleanPath, uiVars, duo>>
    /\ IF ErrorOf(response.kind) # "none"
       THEN /\ Throw(ErrorOf(response.kind))
            /\ finalPlan' = IF response.kind = "no_fixedFiles"
                            THEN <<NewPlan(finalPlan, response.result)>>
                            ELSE finalPlan
            /\ UNCHANGED <<currentFiles, i, changes, merges>>
       ELSE \E fixedFiles \in {response.result.fixedFiles} :
            \E merged \in {ApplyUpdates(currentFiles, newUpdates(fixedFiles))} :
                /\ finalPlan' = <<NewPlan(finalPlan, response.result)>>
                /\ UNCHANGED error
                /\ IF Len(fixedFiles) = 0
                   THEN UNCHANGED <<currentFiles, changes, merges>>
                   ELSE /\ currentFiles' = merged.files
                        /\ changes' = IF merged.files # currentFiles
                                      THEN changes + 1 ELSE changes
                        /\ merges' = merges + 1
                /\ IF LoopBreaks(fixedFiles, merged.filesWereUpdated)
                   THEN pc' = "afterLoop" /\ UNCHANGED i
                   ELSE pc' = "loop" /\ i' = i + 1
    /\ filesForPrompt' = <<>>
    /\ UNCHANGED <<apiKey, initialProjectFiles, response, result, calls,
                   fixesAssigned, inFlight>>

\* after the loop: null check, suggestedFixes, return
AfterLoop ==
    /\ pc = "afterLoop"
    /\ UNCHANGED <<rawPath, cleanPath, uiVars, duo>>
    /\ IF RunFailed(finalPlan, i)
       THEN Throw("no_plan") /\ UNCHANGED <<finalPlan, result, fixesAssigned>>
       ELSE LET plan == [finalPlan[1] EXCEPT !.suggestedFixes =
                            ComputeSuggestedFixes(initialProjectFiles, currentFiles)]
            IN  /\ finalPlan' = <<plan>>
                /\ fixesAssigned' = fixesAssigned + 1
                /\ result' = <<[plan |-> plan, finalFiles |-> currentFiles]>>
                /\ pc' = "returned"
                /\ UNCHANGED error
    /\ UNCHANGED <<apiKey, initialProjectFiles, currentFiles, i, response,
                   calls, changes, filesForPrompt, inFlight, merges>>

Next ==
    \/ ProcessZipFileFails
    \/ ProcessZipFile
    \/ EnterRun
    \/ IssueCall
    \/ LoopExit
    \/ ModelRejects
    \/ ModelResolves
    \/ ProcessResponse
    \/ AfterLoop

Spec == Init /\ [][Next]_vars

\* every step of the code is eventually taken and every model call eventually
\* resolves or rejects
FairSpec == Spec /\ WF_vars(Next)

\* strings sanitizePath is called with: the strings of at most MaxPathLen
\* tokens over whitespace, ".", "/", "\\" and two chunks, and the strings
\* "../../x", "a//b/./c" and "a\b\c"
PathTokens == {" ", ".", "/", "\\", "a", "b"}
IsChunk(t) == t \notin {" ", ".", "/", "\\"}
PathStrings ==
    { s \in UNION {[1..n -> PathTokens] : n \in 0..MaxPathLen} :
        \A k \in 1..(Len(s) - 1) : ~(IsChunk(s[k]) /\ IsChunk(s[k + 1])) }
DotDotDotDotX == <<".", ".", "/", ".", ".", "/", "x">>
ASlashSlashB == <<"a", "/", "/", "b", "/", ".", "/", "c">>
ABackslashB == <<"a", "\\", "b", "\\", "c">>
PathInputs == PathStrings \cup {DotDotDotDotX, ASlashSlashB, ABackslashB}

\* a caller about to call sanitizePath(rawPath)
SanitizeInit ==
    /\ apiKey = TRUE
    /\ initialProjectFiles = <<>>
    /\ currentFiles = <<>>
    /\ finalPlan = Null
    /\ i = 0
    /\ response = NoResponse
    /\ result = Null
    /\ error = "none"
    /\ pc = "sanitize"
    /\ calls = 0
    /\ changes = 0
    /\ fixesAssigned = 0
    /\ filesForPrompt = <<>>
    /\ inFlight = 0
    /\ merges = 0
    /\ rawPath \in PathInputs
    /\ cleanPath = <<>>
    /\ UiInitial
    /\ duo = NoDuo

\* the call returns
SanitizePath ==
    /\ pc = "sanitize"
    /\ cleanPath' = sanitizePath(rawPath)
    /\ pc' = "sanitized"
    /\ UNCHANGED rawPath
    /\ UNCHANGED <<runVars, uiVars, duo>>

SanitizeNext == SanitizePath

SanitizeSpec == SanitizeInit /\ [][SanitizeNext]_vars

\* archives with files large enough to fill the prompt budget: priority
\* files, source files and files the filter excludes
PromptNames ==
    {ReplitPath, PackageJson, YarnLock, AppPy, ServerJs, DistOutJs, AppTestJs}
PromptContents == {"", "run", Chars100000, Chars100001}
PromptEntries == [name : PromptNames, content : PromptContents]
PromptObjects ==
    { o \in UNION {[1..n -> PromptEntries] : n \in 1..MaxPromptFiles} :
        /\ \A j, k \in 1..Len(o) : j # k => o[j].name # o[k].name
        /\ HasOwn(o, ReplitPath) }

\* a file selection with such an archive
PromptInit ==
    /\ apiKey = TRUE
    /\ initialProjectFiles \in PromptObjects
    /\ currentFiles = <<>>
    /\ finalPlan = Null
    /\ i = 0
    /\ response = NoResponse
    /\ result = Null
    /\ error = "none"
    /\ pc = "processZip"
    /\ calls = 0
    /\ changes = 0
    /\ fixesAssigned = 0
    /\ filesForPrompt = <<>>
    /\ inFlight = 0
    /\ merges = 0
    /\ rawPath = <<>>
    /\ cleanPath = <<>>
    /\ UiInitial
    /\ duo = NoDuo

\* the run up to the moment its first model call is issued
PromptNext ==
    \/ ProcessZipFile
    \/ EnterRun
    \/ IssueCall

PromptSpec == PromptInit /\ [][PromptNext]_vars

\* archives that hold one file name in two canonically equivalent spellings
OrderNames == {ReplitPath, AppPy, CafeNfcJs, CafeNfdJs}
OrderContents == {"run", Chars100000, Chars100001}
OrderEntries == [name : OrderNames, content : OrderContents]
OrderObjects ==
    { o \in UNION {[1..n -> OrderEntries] : n \in 1..MaxPromptFiles} :
        /\ \A j, k \in 1..Len(o) : j # k => o[j].name # o[k].name
        /\ HasOwn(o, ReplitPath) }

\* a file selection with such an archive
OrderInit ==
    /\ apiKey = TRUE
    /\ initialProjectFiles \in OrderObjects
    /\ currentFiles = <<>>
    /\ finalPlan = Null
    /\ i = 0
    /\ response = NoResponse
    /\ result = Null
    /\ error = "none"
    /\ pc = "processZip"
    /\ calls = 0
    /\ changes = 0
    /\ fixesAssigned = 0
    /\ filesForPrompt = <<>>
    /\ inFlight = 0
    /\ merges = 0
    /\ rawPath = <<>>
    /\ cleanPath = <<>>
    /\ UiInitial
    /\ duo = NoDuo

\* the run up to the moment its first model call is issued
OrderNext ==
    \/ ProcessZipFile
    \/ EnterRun
    \/ IssueCall

OrderSpec == OrderInit /\ [][OrderNext]_vars

(***************************************************************************)
(* App: handleFileSelect, Start Over and handleDownloadFixedZip            *)
(***************************************************************************)
ProjectZip == <<"project", ".zip">>

\* what the text entries of a selected archive hold: no .replit, an empty
\* .replit, a .replit with a run command
AppArchives ==
    { <<[name |-> AppPy, content |-> "print(1)"]>>,
      <<[name |-> ReplitPath, content |-> ""],
        [name |-> AppPy, content |-> "print(1)"]>>,
      <<[name |-> ReplitPath, content |-> "run"],
        [name |-> AppPy, content |-> "print(1)"]>> }

\* the File objects a user may select: a name and the archive behind it
AppZips == { [name |-> ProjectZip, files |-> f] : f \in AppArchives }

\* an invocation of handleFileSelect that has not finished: the file it was
\* called with, the call it awaits ("zip": processZipFile, "call": the model
\* call of iteration i), the extracted files and the working file set
Run(zip, stage, k, files, current) ==
    [zip |-> zip, stage |-> stage, i |-> k, files |-> files, current |-> current]

\* runs without the run at position r
Finish(r) == [k \in 1..(Len(runs) - 1) |-> IF k < r THEN runs[k] ELSE runs[k + 1]]

\* what generateDeploymentPlanAndFixes returns for a run
ResultFor(run, draft) ==
    [plan |-> [NewPlan(Null, ResultOf(draft, <<>>)) EXCEPT
                  !.suggestedFixes = ComputeSuggestedFixes(run.files, run.current)],
     finalFiles |-> run.current]

\* onProgress('Analysis complete. Rendering results.'); return; dispatch
Succeed(s, run, draft) ==
    DispatchSuccess(progressCallback(s, Complete), ResultFor(run, draft))

\* a file is dropped on FileUpload, which is rendered when status is 'idle':
\* START_PROCESSING, then processZipFile up to its first await (or its throw
\* when JSZip is not loaded)
HandleFileSelect(file, jsZipLoaded) ==
    /\ state.status = "idle"
    /\ Len(runs) < MaxRuns
    /\ LET started == appReducer(state, [type |-> "START_PROCESSING", payload |-> file])
       IN  IF jsZipLoaded
           THEN /\ state' = progressCallback(started, Unzipping)
                /\ runs' = Append(runs, Run(file, "zip", 0, <<>>, <<>>))
           ELSE /\ state' = DispatchError(started, "zip_load")
                /\ UNCHANGED runs
    /\ UNCHANGED <<downloaded, coreVars, pushVars, duo>>

\* JSZip.loadAsync rejects
ZipRejects(r) ==
    /\ r \in 1..Len(runs)
    /\ runs[r].stage = "zip"
    /\ state' = DispatchError(state, "zip_load")
    /\ runs' = Finish(r)
    /\ UNCHANGED <<downloaded, coreVars, pushVars, duo>>

\* the archive is read: the .replit test of processZipFile, then
\* generateDeploymentPlanAndFixes up to the await of its first model call
ZipResolves(r) ==
    /\ r \in 1..Len(runs)
    /\ runs[r].stage = "zip"
    /\ LET files == runs[r].zip.files
       IN  IF ~Truthy(Get(files, ReplitPath))
           THEN /\ state' = DispatchError(state, "missing_replit")
                /\ runs' = Finish(r)
           ELSE IF ~apiKey
           THEN /\ state' = DispatchError(progressCallback(state, Extracted), "api_key")
                /\ runs' = Finish(r)
           ELSE /\ state' = progressCallback(
                                progressCallback(
                                    progressCallback(state, Extracted),
                                    Preparing),
                                Sending(1))
                /\ runs' = [runs EXCEPT ![r] = Run(runs[r].zip, "call", 0, files, files)]
    /\ UNCHANGED <<downloaded, coreVars, pushVars, duo>>

\* the awaited model call rejects
CallRejects(r) ==
    /\ r \in 1..Len(runs)
    /\ runs[r].stage = "call"
    /\ state' = DispatchError(state, "transport")
    /\ runs' = Finish(r)
    /\ UNCHANGED <<downloaded, coreVars, pushVars, duo>>

\* the response has no text, or its text is not the JSON asked for
ResponseInvalid(r, e) ==
    /\ r \in 1..Len(runs)
    /\ runs[r].stage = "call"
    /\ state' = DispatchError(progressCallback(state, Received), e)
    /\ runs' = Finish(r)
    /\ UNCHANGED <<downloaded, coreVars, pushVars, duo>>

\* the response has no fixes: break, suggestedFixes, return
ResponseStable(r, draft) ==
    /\ r \in 1..Len(runs)
    /\ runs[r].stage = "call"
    /\ state' = Succeed(progressCallback(progressCallback(state, Received), Stable),
                        runs[r], draft)
    /\ runs' = Finish(r)
    /\ UNCHANGED <<downloaded, coreVars, pushVars, duo>>

\* the fixes of the response change nothing: break, suggestedFixes, return
ResponseNoChange(r, draft) ==
    /\ r \in 1..Len(runs)
    /\ runs[r].stage = "call"
    /\ state' = Succeed(progressCallback(
                            progressCallback(progressCallback(state, Received), Applying),
                            NoNewChanges),
                        runs[r], draft)
    /\ runs' = Finish(r)
    /\ UNCHANGED <<downloaded, coreVars, pushVars, duo>>

\* the fixes of the response change the working file set: the next model call
\* is issued, or the loop ends at MAX_ITERATIONS and the run returns
ResponseChanges(r, draft, content) ==
    /\ r \in 1..Len(runs)
    /\ runs[r].stage = "call"
    /\ Get(runs[r].current, AppPy) # content
    /\ LET applied == progressCallback(progressCallback(state, Received), Applying)
           run == [runs[r] EXCEPT !.current = Put(runs[r].current, AppPy, content),
                                  !.i = runs[r].i + 1]
       IN  IF LoopCondition(run.i)
           THEN /\ state' = progressCallback(applied, Sending(run.i + 1))
                /\ runs' = [runs EXCEPT ![r] = run]
           ELSE /\ state' = Succeed(applied, run, draft)
                /\ runs' = Finish(r)
    /\ UNCHANGED <<downloaded, coreVars, pushVars, duo>>

\* Start Over, rendered unless status is 'idle'
ResetState ==
    /\ state.status # "idle"
    /\ state' = appReducer(state, [type |-> "RESET"])
    /\ UNCHANGED <<runs, downloaded, coreVars, pushVars, duo>>

\* originalZipName.endsWith('.zip') ? originalZipName.slice(0, -4) : originalZipName
BaseName(originalZipName) ==
    IF originalZipName # <<>> /\ originalZipName[Len(originalZipName)] = ".zip"
    THEN SubSeq(originalZipName, 1, Len(originalZipName) - 1)
    ELSE originalZipName

\* for (const [path, content] of Object.entries(files)) zip.file(path, content)
ZipFiles[files \in Obj, zip \in Obj] ==
    IF files = <<>> THEN zip
    ELSE ZipFiles[Tail(files), Put(zip, Head(files).name, Head(files).content)]

\* createAndDownloadZip(files, originalZipName): the archive handed to the browser
createAndDownloadZip(files, originalZipName) ==
    [name |-> BaseName(originalZipName) \o <<"-fixed.zip">>,
     files |-> ZipFiles[files, <<>>]]

\* mutant: the manifest is added only when the file set has none
InjectManifest_KeepExisting(files, renderYaml) ==
    IF HasOwn(files, RenderYaml) THEN files ELSE Put(files, RenderYaml, renderYaml)

\* { ...fixedProjectFiles, 'render.yaml': renderYaml }
InjectManifest(files, renderYaml) == Put(files, RenderYaml, renderYaml)

\* the download button of SuggestedFixesSection is rendered
CanDownload ==
    /\ state.status = "success"
    /\ state.deploymentPlan # Null
    /\ state.fixedProjectFiles # Null
    /\ Len(state.deploymentPlan[1].suggestedFixes) > 0

\* handleDownloadFixedZip (createAndDownloadZip throws when JSZip is not loaded)
HandleDownloadFixedZip(jsZipLoaded) ==
    /\ CanDownload
    /\ IF state.fixedProjectFiles = Null \/ state.deploymentPlan = Null
          \/ state.zipFile = Null
       THEN /\ state' = DispatchError(state, "Cannot download zip: project data is missing.")
            /\ UNCHANGED downloaded
       ELSE /\ downloaded' =
                 IF jsZipLoaded
                 THEN <<createAndDownloadZip(
                            InjectManifest(state.fixedProjectFiles[1],
                                           state.deploymentPlan[1].renderYaml),
                            state.zipFile[1].name)>>
                 ELSE downloaded
            /\ UNCHANGED state
    /\ UNCHANGED <<runs, coreVars, pushVars, duo>>

AppInit ==
    /\ apiKey \in BOOLEAN
    /\ initialProjectFiles = <<>>
    /\ currentFiles = <<>>
    /\ finalPlan = Null
    /\ i = 0
    /\ response = NoResponse
    /\ result = Null
    /\ error = "none"
    /\ pc = "app"
    /\ calls = 0
    /\ changes = 0
    /\ fixesAssigned = 0
    /\ filesForPrompt = <<>>
    /\ inFlight = 0
    /\ merges = 0
    /\ rawPath = <<>>
    /\ cleanPath = <<>>
    /\ UiInitial
    /\ duo = NoDuo

\* positions in runs
RunIds == 1..MaxRuns

AppNext ==
    \/ \E file \in AppZips, jsZipLoaded \in BOOLEAN : HandleFileSelect(file, jsZipLoaded)
    \/ \E r \in RunIds : ZipRejects(r)
    \/ \E r \in RunIds : ZipResolves(r)
    \/ \E r \in RunIds : CallRejects(r)
    \/ \E r \in RunIds, e \in {"type_error", "invalid_response"} : ResponseInvalid(r, e)
    \/ \E r \in RunIds : ResponseStable(r, DraftA)
    \/ \E r \in RunIds : ResponseNoChange(r, DraftA)
    \/ \E r \in RunIds, content \in FixContents : ResponseChanges(r, DraftA, content)
    \/ ResetState

AppSpec == AppInit /\ [][AppNext]_vars

\* the archive with a .replit file, selected with JSZip loaded
RunnableZip ==
    [name |-> ProjectZip,
     files |-> <<[name |-> ReplitPath, content |-> "run"],
                 [name |-> AppPy, content |-> "print(1)"]>>]

\* the App with the analysis key set
LogInit == AppInit /\ apiKey = TRUE

\* selections of the archive, every way a run can go on or end, Start Over
LogNext ==
    \/ HandleFileSelect(RunnableZip, TRUE)
    \/ \E r \in RunIds : ZipRejects(r)
    \/ \E r \in RunIds : ZipResolves(r)
    \/ \E r \in RunIds : CallRejects(r)
    \/ \E r \in RunIds : ResponseInvalid(r, "invalid_response")
    \/ \E r \in RunIds : ResponseStable(r, DraftA)
    \/ \E r \in RunIds : ResponseNoChange(r, DraftA)
    \/ \E r \in RunIds, content \in FixContents : ResponseChanges(r, DraftA, content)
    \/ ResetState

LogSpec == LogInit /\ [][LogNext]_vars

\* the contents a response gives an updated file
UpdateContents == {"print(2)", DraftA.renderYaml}

\* the response's updatedFiles hold one entry for path whose content differs
\* from the working file set's (or path is not in it): the entry is applied,
\* and the next model call is issued or the loop ends at MAX_ITERATIONS
ResponseUpdates(r, draft, path, content) ==
    /\ r \in 1..Len(runs)
    /\ runs[r].stage = "call"
    /\ Get(runs[r].current, path) # content
    /\ LET applied == progressCallback(progressCallback(state, Received), Applying)
           run == [runs[r] EXCEPT !.current = Put(runs[r].current, path, content),
                                  !.i = runs[r].i + 1]
       IN  IF LoopCondition(run.i)
           THEN /\ state' = progressCallback(applied, Sending(run.i + 1))
                /\ runs' = [runs EXCEPT ![r] = run]
           ELSE /\ state' = Succeed(applied, run, draft)
                /\ runs' = Finish(r)
    /\ UNCHANGED <<downloaded, coreVars, pushVars, duo>>

\* the App from the selection of an archive to the download of the fixed
\* archive, for responses that update app.py or render.yaml
\* an archive that holds a render.yaml of its own
ManifestZip ==
    [name |-> ProjectZip,
     files |-> <<[name |-> ReplitPath, content |-> "run"],
                 [name |-> RenderYaml, content |-> "print(1)"],
                 [name |-> AppPy, content |-> "print(1)"]>>]

ArchiveInit == AppInit /\ apiKey = TRUE

ArchiveNext ==
    \/ \E file \in {RunnableZip, ManifestZip} : HandleFileSelect(file, TRUE)
    \/ \E r \in RunIds : ZipResolves(r)
    \/ \E r \in RunIds : ResponseStable(r, DraftA)
    \/ \E r \in RunIds, path \in {AppPy, RenderYaml}, content \in UpdateContents :
           ResponseUpdates(r, DraftA, path, content)
    \/ \E r \in RunIds : ResponseNoChange(r, DraftA)
    \/ HandleDownloadFixedZip(TRUE)

ArchiveSpec == ArchiveInit /\ [][ArchiveNext]_vars

(***************************************************************************)
(* DeploymentSection: connect, push to the source host, deploy             *)
(***************************************************************************)
GithubPat == "ghp_token"
RenderPat == "rnd_token"

\* the account getUser resolves with
OctoUser == [login |-> "octo"]

\* the repository name in the form after typing (characters outside [a-zA-Z0-9-._] replaced)
RepoNames == {"app"}

\* the repository createRepo resolves with
NewRepo(login, repoName) ==
    [html_url |-> <<"https://github.com/", login, "/", repoName>>,
     full_name |-> <<login, "/", repoName>>]

\* err.message of a rejected createRepo or commitMultipleFiles
RawErrors == {"name already exists on this account"}

\* texts the diagnosis model may answer with, as sequences of pieces
DiagnosisTexts == {<<"Choose another repository name.", " ">>}

\* how the model call of diagnoseGitHubError settles
DiagnosisOutcomes ==
    { [kind |-> "text", text |-> t] : t \in DiagnosisTexts }
    \cup { [kind |-> "no_text", text |-> Undefined],
           [kind |-> "rejected", text |-> Undefined] }

\* the message of the catch block of diagnoseGitHubError
DiagnosisFallback(errorMessage) ==
    <<"An error occurred while creating the repository: ", errorMessage,
      ". Please check the repository name and your GitHub token permissions.">>

\* the message of the catch (diagErr) block of handleRepoSubmit
SubmitFallback(rawErrorMessage) ==
    <<"Failed to create repository: ", rawErrorMessage,
      ". Please check your repository name and that your GitHub token has 'repo' permissions.">>

\* mutant: the catch block of diagnoseGitHubError rethrows
diagnoseGitHubError_Propagates(errorMessage, outcome) ==
    IF outcome.kind = "text"
    THEN [threw |-> FALSE, value |-> Trim(outcome.text)]
    ELSE [threw |-> TRUE, value |-> <<>>]

\* diagnoseGitHubError once its model call has settled: response.text.trim(),
\* or the fallback when the call rejects or the response has no text
diagnoseGitHubError(errorMessage, outcome) ==
    IF outcome.kind = "text"
    THEN [threw |-> FALSE, value |-> Trim(outcome.text)]
    ELSE [threw |-> FALSE, value |-> DiagnosisFallback(errorMessage)]

\* the owners getOwners may resolve with
Owner1 == [id |-> "usr-1", type |-> "user"]
Owner2 == [id |-> "tea-2", type |-> "team"]
OwnerLists == {<<>>, <<Owner1, Owner2>>}

\* positions in pending
PendingIds == 1..MaxPending

\* pending without the invocation at position p
Settle(p) ==
    [k \in 1..(Len(pending) - 1) |-> IF k < p THEN pending[k] ELSE pending[k + 1]]

\* the props of DeploymentSection
renderYamlContent == state.deploymentPlan[1].renderYaml
fixedProjectFiles == state.fixedProjectFiles[1]

\* if (renderSuccessData) return the success screen: nothing else is rendered
MainView == section.renderSuccessData = Null

\* renderOwners.find(o => o.id === selectedRenderOwnerId)
HasSelectedOwner ==
    /\ section.selectedRenderOwnerId # Null
    /\ \E k \in 1..Len(section.renderOwners) :
          section.renderOwners[k].id = section.selectedRenderOwnerId[1]

\* handleGithubTokenVerification up to its await (the token modal is opened
\* from the Connect button, its submit button is disabled while loading)
HandleGithubTokenVerification(tokenToVerify) ==
    /\ MainView
    /\ section.githubUser = Null
    /\ section.githubStatus # "loading"
    /\ Len(pending) < MaxPending
    /\ section' = [section EXCEPT !.githubStatus = "loading", !.githubError = Null]
    /\ pending' = Append(pending, [handler |-> "handleGithubTokenVerification",
                                   stage |-> "getUser", token |-> tokenToVerify])
    /\ UNCHANGED <<sessionStorage, requested, appVars, coreVars, duo>>

\* getUser resolves
GetUserResolves(p) ==
    /\ p \in 1..Len(pending)
    /\ pending[p].stage = "getUser"
    /\ section' = [section EXCEPT !.githubUser = <<OctoUser>>,
                                  !.githubToken = <<pending[p].token>>,
                                  !.githubStatus = "idle"]
    /\ sessionStorage' = [sessionStorage EXCEPT !.github_pat = <<pending[p].token>>]
    /\ pending' = Settle(p)
    /\ UNCHANGED <<requested, appVars, coreVars, duo>>

\* getUser rejects
GetUserRejects(p) ==
    /\ p \in 1..Len(pending)
    /\ pending[p].stage = "getUser"
    /\ section' = [section EXCEPT
          !.githubError = <<<<"Invalid token or insufficient permissions. Please check your token.">>>>,
          !.githubStatus = "idle"]
    /\ sessionStorage' = [sessionStorage EXCEPT !.github_pat = Null]
    /\ pending' = Settle(p)
    /\ UNCHANGED <<requested, appVars, coreVars, duo>>

\* the setters of handleRenderDisconnect
RenderDisconnected(sec) ==
    [sec EXCEPT !.renderToken = Null, !.renderOwners = <<>>,
                !.selectedRenderOwnerId = Null, !.renderStatus = "idle",
                !.renderError = Null, !.renderSuccessData = Null]

\* Disconnect of the GitHub account
HandleGithubDisconnect ==
    /\ MainView
    /\ section.githubUser # Null
    /\ section' = RenderDisconnected(
                     [section EXCEPT !.githubToken = Null, !.githubUser = Null,
                                     !.repoName = "", !.githubStatus = "idle",
                                     !.githubError = Null, !.repoSuccessData = Null])
    /\ sessionStorage' = NoTokens
    /\ UNCHANGED <<pending, requested, appVars, coreVars, duo>>

\* the repository name is typed into the form
SetRepoName(name) ==
    /\ MainView
    /\ section.githubUser # Null
    /\ section.repoSuccessData = Null
    /\ section.repoName # name
    /\ section' = [section EXCEPT !.repoName = name]
    /\ UNCHANGED <<pending, sessionStorage, requested, appVars, coreVars, duo>>

\* handleRepoSubmit up to the await of createRepo (the form is rendered while
\* repoSuccessData is null, its button is disabled while loading or without
\* a name)
HandleRepoSubmit ==
    /\ MainView
    /\ section.githubUser # Null
    /\ section.repoSuccessData = Null
    /\ section.githubStatus # "loading"
    /\ section.githubToken # Null /\ section.repoName # ""
    /\ Len(pending) < MaxPending
    /\ section' = [section EXCEPT !.githubStatus = "loading", !.githubError = Null,
                                  !.repoSuccessData = Null,
                                  !.isDiagnosingError = FALSE]
    /\ pending' = Append(pending,
          [handler |-> "handleRepoSubmit", stage |-> "createRepo",
           githubToken |-> section.githubToken[1],
           login |-> section.githubUser[1].login,
           repoName |-> section.repoName,
           fixedProjectFiles |-> fixedProjectFiles,
           renderYamlContent |-> renderYamlContent])
    /\ UNCHANGED <<sessionStorage, requested, appVars, coreVars, duo>>

\* createRepo resolves: filesToPush is built and commitMultipleFiles is called
CreateRepoResolves(p) ==
    /\ p \in 1..Len(pending)
    /\ pending[p].stage = "createRepo"
    /\ LET sub == pending[p]
           filesToPush == InjectManifest(sub.fixedProjectFiles, sub.renderYamlContent)
       IN  /\ requested' = [requested EXCEPT
                  !.repos = @ \cup {sub.repoName},
                  !.commit = <<[repoName |-> sub.repoName, files |-> filesToPush]>>]
           /\ pending' = [pending EXCEPT ![p] =
                  [handler |-> "handleRepoSubmit", stage |-> "commitMultipleFiles",
                   repoName |-> sub.repoName,
                   newRepo |-> NewRepo(sub.login, sub.repoName)]]
    /\ UNCHANGED <<section, sessionStorage, appVars, coreVars, duo>>

\* the catch block of handleRepoSubmit up to the await of the diagnosis
\* (diagnoseGitHubError throws before its model call when API_KEY is not set)
PushFailed(p, rawErrorMessage) ==
    IF ~apiKey
    THEN /\ section' = [section EXCEPT !.githubStatus = "error",
                                       !.githubError = <<SubmitFallback(rawErrorMessage)>>,
                                       !.isDiagnosingError = FALSE]
         /\ pending' = Settle(p)
    ELSE /\ section' = [section EXCEPT !.githubStatus = "error",
                                       !.isDiagnosingError = TRUE]
         /\ pending' = [pending EXCEPT ![p] =
                [handler |-> "handleRepoSubmit", stage |-> "diagnoseGitHubError",
                 repoName |-> pending[p].repoName,
                 rawErrorMessage |-> rawErrorMessage]]

\* createRepo rejects
CreateRepoRejects(p, rawErrorMessage) ==
    /\ p \in 1..Len(pending)
    /\ pending[p].stage = "createRepo"
    /\ PushFailed(p, rawErrorMessage)
    /\ UNCHANGED <<sessionStorage, requested, appVars, coreVars, duo>>

\* commitMultipleFiles resolves
CommitResolves(p) ==
    /\ p \in 1..Len(pending)
    /\ pending[p].stage = "commitMultipleFiles"
    /\ section' = [section EXCEPT
          !.repoSuccessData = <<[url |-> pending[p].newRepo.html_url,
                                 repoFullName |-> pending[p].newRepo.full_name]>>,
          !.githubStatus = "success"]
    /\ requested' = [requested EXCEPT !.pushed = @ \cup {pending[p].newRepo.html_url}]
    /\ pending' = Settle(p)
    /\ UNCHANGED <<sessionStorage, appVars, coreVars, duo>>

\* commitMultipleFiles rejects
CommitRejects(p, rawErrorMessage) ==
    /\ p \in 1..Len(pending)
    /\ pending[p].stage = "commitMultipleFiles"
    /\ PushFailed(p, rawErrorMessage)
    /\ UNCHANGED <<sessionStorage, requested, appVars, coreVars, duo>>

\* the model call of diagnoseGitHubError settles: try, catch (diagErr), finally
DiagnosisSettles(p, outcome) ==
    /\ p \in 1..Len(pending)
    /\ pending[p].stage = "diagnoseGitHubError"
    /\ LET diagnosed == diagnoseGitHubError(pending[p].rawErrorMessage, outcome)
       IN  section' = [section EXCEPT
               !.githubError = <<IF diagnosed.threw
                                 THEN SubmitFallback(pending[p].rawErrorMessage)
                                 ELSE diagnosed.value>>,
               !.isDiagnosingError = FALSE]
    /\ pending' = Settle(p)
    /\ UNCHANGED <<sessionStorage, requested, appVars, coreVars, duo>>

\* handleRenderTokenVerification up to its await
HandleRenderTokenVerification(tokenToVerify) ==
    /\ MainView
    /\ section.repoSuccessData # Null
    /\ ~HasSelectedOwner
    /\ section.renderStatus # "loading"
    /\ Len(pending) < MaxPending
    /\ section' = [section EXCEPT !.renderStatus = "loading", !.renderError = Null]
    /\ pending' = Append(pending, [handler |-> "handleRenderTokenVerification",
                                   stage |-> "getOwners", token |-> tokenToVerify])
    /\ UNCHANGED <<sessionStorage, requested, appVars, coreVars, duo>>

\* getOwners settles: with owners, or with none or a rejection (the catch block)
GetOwnersSettles(p, owners) ==
    /\ p \in 1..Len(pending)
    /\ pending[p].stage = "getOwners"
    /\ IF owners # <<>>
       THEN /\ section' = [section EXCEPT
                  !.renderOwners = owners,
                  !.selectedRenderOwnerId = <<owners[1].id>>,
                  !.renderToken = <<pending[p].token>>,
                  !.renderStatus = "idle"]
            /\ sessionStorage' = [sessionStorage EXCEPT !.render_pat = <<pending[p].token>>]
       ELSE /\ section' = [section EXCEPT
                  !.renderError = <<<<"Invalid token or API error: ",
                                      "No owner found for this Render API key.">>>>,
                  !.renderStatus = "idle"]
            /\ sessionStorage' = [sessionStorage EXCEPT !.render_pat = Null]
    /\ pending' = Settle(p)
    /\ UNCHANGED <<requested, appVars, coreVars, duo>>

\* Disconnect of the hosting account
HandleRenderDisconnect ==
    /\ MainView
    /\ section.repoSuccessData # Null
    /\ HasSelectedOwner
    /\ section' = RenderDisconnected(section)
    /\ sessionStorage' = [sessionStorage EXCEPT !.render_pat = Null]
    /\ UNCHANGED <<pending, requested, appVars, coreVars, duo>>

\* another owner is chosen in the select element
SelectOwner(owner) ==
    /\ MainView
    /\ section.repoSuccessData # Null
    /\ HasSelectedOwner
    /\ Len(section.renderOwners) > 1
    /\ \E k \in 1..Len(section.renderOwners) : section.renderOwners[k] = owner
    /\ section.selectedRenderOwnerId # <<owner.id>>
    /\ section' = [section EXCEPT !.selectedRenderOwnerId = <<owner.id>>]
    /\ UNCHANGED <<pending, sessionStorage, requested, appVars, coreVars, duo>>

\* if (!renderToken || !selectedRenderOwnerId || !repoSuccessData) return;
DeployGuard ==
    /\ section.renderToken # Null
    /\ section.selectedRenderOwnerId # Null
    /\ section.repoSuccessData # Null

\* the deploy button is rendered and enabled
DeployButton ==
    /\ MainView
    /\ section.repoSuccessData # Null
    /\ HasSelectedOwner
    /\ section.renderStatus # "loading"

\* mutant: the repository URL is rebuilt from the account and the name in the form
BlueprintRequest_UrlFromForm ==
    [token |-> section.renderToken[1],
     ownerId |-> section.selectedRenderOwnerId[1],
     repoUrl |-> NewRepo(OctoUser.login, section.repoName).html_url,
     repoName |-> section.repoName]

\* createBlueprint(renderToken, selectedRenderOwnerId, repoSuccessData.url, repoName)
BlueprintRequest ==
    [token |-> section.renderToken[1],
     ownerId |-> section.selectedRenderOwnerId[1],
     repoUrl |-> section.repoSuccessData[1].url,
     repoName |-> section.repoName]

\* handleDeployToRender up to the await of createBlueprint
HandleDeployToRender ==
    /\ DeployButton
    /\ DeployGuard
    /\ Len(pending) < MaxPending
    /\ section' = [section EXCEPT !.renderStatus = "loading", !.renderError = Null]
    /\ requested' = [requested EXCEPT !.blueprint = <<BlueprintRequest>>]
    /\ pending' = Append(pending, [handler |-> "handleDeployToRender",
                                   stage |-> "createBlueprint"])
    /\ UNCHANGED <<sessionStorage, appVars, coreVars, duo>>

\* createBlueprint resolves with a service
CreateBlueprintResolves(p) ==
    /\ p \in 1..Len(pending)
    /\ pending[p].stage = "createBlueprint"
    /\ section' = [section EXCEPT
          !.renderSuccessData = <<[url |-> <<"https://dashboard.render.com/web/", "srv-1">>]>>,
          !.renderStatus = "success"]
    /\ pending' = Settle(p)
    /\ UNCHANGED <<sessionStorage, requested, appVars, coreVars, duo>>

\* createBlueprint rejects, or resolves without a service
CreateBlueprintRejects(p) ==
    /\ p \in 1..Len(pending)
    /\ pending[p].stage = "createBlueprint"
    /\ section' = [section EXCEPT
          !.renderError = <<<<"Failed to deploy to Render: ", "Render API error: 400">>>>,
          !.renderStatus = "error"]
    /\ pending' = Settle(p)
    /\ UNCHANGED <<sessionStorage, requested, appVars, coreVars, duo>>

\* the state of progressCallback after it has been called with each message
Logged(s, messages) ==
    LET after[k \in 0..Len(messages)] ==
            IF k = 0 THEN s ELSE progressCallback(after[k - 1], messages[k])
    IN  after[Len(messages)]

BackupTar == <<"backup", ".tar">>

\* two analysed archives: the final file set of the second holds a render.yaml
PushedZips ==
    { [name |-> ProjectZip,
       files |-> <<[name |-> ReplitPath, content |-> "run"],
                   [name |-> AppPy, content |-> "print(1)"]>>],
      [name |-> BackupTar,
       files |-> <<[name |-> ReplitPath, content |-> "run"],
                   [name |-> RenderYaml, content |-> "print(1)"],
                   [name |-> AppPy, content |-> "print(1)"]>>] }

\* the app state after a run for zip that changed app.py in its first
\* iteration and was stable in its second
SuccessState(zip) ==
    DispatchSuccess(
        Logged(appReducer(initialState, [type |-> "START_PROCESSING", payload |-> zip]),
               <<Unzipping, Extracted, Preparing, Sending(1), Received, Applying,
                 Sending(2), Received, Stable, Complete>>),
        ResultFor(Run(zip, "call", 1, zip.files, Put(zip.files, AppPy, "print(2)")),
                  DraftA))

\* DeploymentSection is mounted with the results of a successful run; its
\* effect starts the verification of the tokens found in sessionStorage
PushInit ==
    /\ apiKey = TRUE
    /\ initialProjectFiles = <<>>
    /\ currentFiles = <<>>
    /\ finalPlan = Null
    /\ i = 0
    /\ response = NoResponse
    /\ result = Null
    /\ error = "none"
    /\ pc = "push"
    /\ calls = 0
    /\ changes = 0
    /\ fixesAssigned = 0
    /\ filesForPrompt = <<>>
    /\ inFlight = 0
    /\ merges = 0
    /\ rawPath = <<>>
    /\ cleanPath = <<>>
    /\ state \in {SuccessState(zip) : zip \in PushedZips}
    /\ runs = NoRuns
    /\ downloaded = Null
    /\ requested = NothingRequested
    /\ duo = NoDuo
    /\ \/ /\ sessionStorage = NoTokens
          /\ section = initialSection
          /\ pending = <<>>
       \/ /\ sessionStorage = [github_pat |-> <<GithubPat>>, render_pat |-> <<RenderPat>>]
          /\ section = [initialSection EXCEPT !.githubStatus = "loading",
                                              !.renderStatus = "loading"]
          /\ pending = <<[handler |-> "handleGithubTokenVerification",
                          stage |-> "getUser", token |-> GithubPat],
                         [handler |-> "handleRenderTokenVerification",
                          stage |-> "getOwners", token |-> RenderPat]>>

PushNext ==
    \/ HandleGithubTokenVerification(GithubPat)
    \/ \E p \in PendingIds : GetUserResolves(p)
    \/ \E p \in PendingIds : GetUserRejects(p)
    \/ HandleGithubDisconnect
    \/ \E name \in RepoNames : SetRepoName(name)
    \/ HandleRepoSubmit
    \/ \E p \in PendingIds : CreateRepoResolves(p)
    \/ \E p \in PendingIds, rawErrorMessage \in RawErrors : CreateRepoRejects(p, rawErrorMessage)
    \/ \E p \in PendingIds : CommitResolves(p)
    \/ \E p \in PendingIds, rawErrorMessage \in RawErrors : CommitRejects(p, rawErrorMessage)
    \/ \E p \in PendingIds, outcome \in DiagnosisOutcomes : DiagnosisSettles(p, outcome)
    \/ HandleRenderTokenVerification(RenderPat)
    \/ \E p \in PendingIds, owners \in OwnerLists : GetOwnersSettles(p, owners)
    \/ HandleRenderDisconnect
    \/ \E owner \in {Owner1, Owner2} : SelectOwner(owner)
    \/ HandleDeployToRender
    \/ \E p \in PendingIds : CreateBlueprintResolves(p)
    \/ \E p \in PendingIds : CreateBlueprintRejects(p)
    \/ \E jsZipLoaded \in BOOLEAN : HandleDownloadFixedZip(jsZipLoaded)

PushSpec == PushInit /\ [][PushNext]_vars

(***************************************************************************)
(* Two runs of generateDeploymentPlanAndFixes whose steps interleave        *)
(***************************************************************************)
DuoRuns == {1, 2}

\* the objects of the two runs: the object a run is called with and the
\* object its currentFiles variable refers to
InputRef == [r \in DuoRuns |-> IF r = 1 THEN "input1" ELSE "input2"]
WorkingRef == [r \in DuoRuns |-> IF r = 1 THEN "working1" ELSE "working2"]
DuoRefs == {"input1", "input2", "working1", "working2"}

\* the extracted archives the two runs are called with
DuoInputs ==
    { <<[name |-> ReplitPath, content |-> "run"], [name |-> AppPy, content |-> c]>> :
        c \in FixContents }

\* what the model calls of the two runs settle with
DuoResponses ==
    { Rejected,
      [kind |-> "no_fixedFiles", result |-> ResultOf(DraftB, <<>>)],
      [kind |-> "ok", result |-> ResultOf(DraftA, <<>>)],
      [kind |-> "ok", result |-> ResultOf(DraftA,
           <<[fileName |-> AppPy, fileContent |-> "print(2)"]>>)],
      [kind |-> "ok", result |-> ResultOf(DraftB,
           <<[fileName |-> AppPy, fileContent |-> "print(1)"]>>)] }

\* mutant: let currentFiles = initialProjectFiles (no copy)
WorkingObject_Alias(r, input) == input

\* let currentFiles = { ...initialProjectFiles }: a new object
WorkingObject(r, input) == WorkingRef[r]

\* the loop body after the awaited call has settled with resp, for the
\* working set files, the plan and the loop index k of one run
AfterResponse(files, plan, k, resp) ==
    IF ErrorOf(resp.kind) # "none"
    THEN [files |-> files,
          finalPlan |-> IF resp.kind = "no_fixedFiles"
                        THEN <<NewPlan(plan, resp.result)>> ELSE plan,
          i |-> k, error |-> ErrorOf(resp.kind), next |-> "thrown"]
    ELSE LET fixedFiles == resp.result.fixedFiles
             merged == ApplyUpdates(files, newUpdates(fixedFiles))
             breaks == LoopBreaks(fixedFiles, merged.filesWereUpdated)
         IN  [files |-> IF Len(fixedFiles) = 0 THEN files ELSE merged.files,
              finalPlan |-> <<NewPlan(plan, resp.result)>>,
              i |-> IF breaks THEN k ELSE k + 1,
              error |-> "none",
              next |-> IF breaks \/ ~LoopCondition(k + 1) THEN "afterLoop" ELSE "loop"]

\* the code after the loop: null check, suggestedFixes, return
AfterTheLoop(initial, files, plan, k) ==
    IF RunFailed(plan, k)
    THEN [finalPlan |-> plan, result |-> Null, error |-> "no_plan"]
    ELSE LET final == [plan[1] EXCEPT !.suggestedFixes =
                          ComputeSuggestedFixes(initial, files)]
         IN  [finalPlan |-> <<final>>,
              result |-> <<[plan |-> final, finalFiles |-> files]>>,
              error |-> "none"]

\* a run called with the object input; alone is the same run as it proceeds
\* on the same responses with objects that nothing else refers to
NewRun(input, files) ==
    [input |-> input, files |-> "none", finalPlan |-> Null, i |-> 0,
     stage |-> "enter", result |-> Null, error |-> "none",
     alone |-> [input |-> files, files |-> <<>>, finalPlan |-> Null, i |-> 0,
                result |-> Null, error |-> "none"]]

\* entry of run r up to its first await: the API key is tested, the working
\* set is created, the prompt of the first iteration is assembled and the
\* call is issued
DuoEnter(r) ==
    /\ duo.run[r].stage = "enter"
    /\ LET run == duo.run[r]
           working == WorkingObject(r, run.input)
           alone == AssemblePrompt(run.alone.input).currentFiles
       IN  IF ~apiKey
           THEN duo' = [duo EXCEPT !.run[r] =
                           [run EXCEPT !.stage = "thrown", !.error = "api_key",
                                       !.alone = [@ EXCEPT !.error = "api_key"]]]
           ELSE duo' = [heap |-> [duo.heap EXCEPT ![working] =
                                     AssemblePrompt(duo.heap[run.input]).currentFiles],
                        run |-> [duo.run EXCEPT ![r] =
                            [run EXCEPT !.files = working, !.stage = "awaiting",
                                        !.alone = [@ EXCEPT !.files = alone]]]]
    /\ UNCHANGED <<coreVars, uiVars>>

\* run r from the settlement of its call to its next await or to its end
Resumed(run, heap, resp) ==
    LET out == AfterResponse(heap[run.files], run.finalPlan, run.i, resp)
        written == [heap EXCEPT ![run.files] = out.files]
        ended == AfterTheLoop(written[run.input], written[run.files],
                              out.finalPlan, out.i)
    IN  CASE out.next = "thrown" ->
               [heap |-> written,
                run |-> [run EXCEPT !.finalPlan = out.finalPlan, !.error = out.error,
                                    !.stage = "thrown"]]
          [] out.next = "afterLoop" ->
               [heap |-> written,
                run |-> [run EXCEPT !.finalPlan = ended.finalPlan, !.i = out.i,
                                    !.result = ended.result, !.error = ended.error,
                                    !.stage = IF ended.error = "none"
                                              THEN "returned" ELSE "thrown"]]
          [] OTHER ->
               [heap |-> [written EXCEPT ![run.files] =
                             AssemblePrompt(written[run.files]).currentFiles],
                run |-> [run EXCEPT !.finalPlan = out.finalPlan, !.i = out.i]]

\* the same for the run that proceeds alone
ResumedAlone(alone, resp) ==
    LET out == AfterResponse(alone.files, alone.finalPlan, alone.i, resp)
        ended == AfterTheLoop(alone.input, out.files, out.finalPlan, out.i)
    IN  CASE out.next = "thrown" ->
               [alone EXCEPT !.files = out.files, !.finalPlan = out.finalPlan,
                             !.error = out.error]
          [] out.next = "afterLoop" ->
               [alone EXCEPT !.files = out.files, !.finalPlan = ended.finalPlan,
                             !.i = out.i, !.result = ended.result,
                             !.error = ended.error]
          [] OTHER ->
               [alone EXCEPT !.files = AssemblePrompt(out.files).currentFiles,
                             !.finalPlan = out.finalPlan, !.i = out.i]

\* the call of run r settles and the run goes on to its next await or ends
DuoSettles(r, resp) ==
    /\ duo.run[r].stage = "awaiting"
    /\ LET after == Resumed(duo.run[r], duo.heap, resp)
       IN  duo' = [heap |-> after.heap,
                   run |-> [duo.run EXCEPT ![r] =
                       [after.run EXCEPT !.alone = ResumedAlone(@, resp)]]]
    /\ UNCHANGED <<coreVars, uiVars>>

\* two runs have been called, with the same object or with two objects
DuoInit ==
    /\ apiKey \in BOOLEAN
    /\ initialProjectFiles = <<>>
    /\ currentFiles = <<>>
    /\ finalPlan = Null
    /\ i = 0
    /\ response = NoResponse
    /\ result = Null
    /\ error = "none"
    /\ pc = "duo"
    /\ calls = 0
    /\ changes = 0
    /\ fixesAssigned = 0
    /\ filesForPrompt = <<>>
    /\ inFlight = 0
    /\ merges = 0
    /\ rawPath = <<>>
    /\ cleanPath = <<>>
    /\ UiInitial
    /\ \E first \in DuoInputs, second \in DuoInputs, sameObject \in BOOLEAN :
          /\ sameObject => first = second
          /\ duo = [heap |-> [ref \in DuoRefs |->
                                 CASE ref = "input1" -> first
                                   [] ref = "input2" -> second
                                   [] OTHER -> <<>>],
                    run |-> [r \in DuoRuns |->
                                IF r = 1 THEN NewRun("input1", first)
                                ELSE NewRun(IF sameObject THEN "input1" ELSE "input2",
                                            second)]]

DuoNext ==
    \/ \E r \in DuoRuns : DuoEnter(r)
    \/ \E r \in DuoRuns, resp \in DuoResponses : DuoSettles(r, resp)

DuoSpec == DuoInit /\ [][DuoNext]_vars

\* every diagnosis call settles: it resolves or it rejects
FairPushSpec ==
    PushSpec /\ WF_vars(\E p \in PendingIds, outcome \in DiagnosisOutcomes :
                            DiagnosisSettles(p, outcome))

TypeOK ==
    /\ pc \in {"app", "push", "duo", "processZip", "enter", "loop", "awaiting", "received",
               "afterLoop", "returned", "thrown", "sanitize", "sanitized"}
    /\ i \in 0..MAX_ITERATIONS
    /\ calls \in 0..MaxCalls
    /\ inFlight \in 0..MaxCalls
    /\ merges \in 0..MaxCalls

(***************************************************************************)
(* Properties                                                              *)
(***************************************************************************)
Terminal == pc \in {"returned", "thrown"}
Iterating == pc \in {"loop", "awaiting", "received"}

\* the plan carries the five fields of the parsed response
PlanHasFieldsOf(plan, res) ==
    /\ plan.projectType = res.projectType
    /\ plan.renderYaml = res.renderYaml
    /\ plan.buildCommand = res.buildCommand
    /\ plan.startCommand = res.startCommand
    /\ plan.explanation = res.explanation

EmptyFixResponse ==
    response.kind = "ok" /\ Len(response.result.fixedFiles) = 0

NonEmptyFixResponse ==
    response.kind = "ok" /\ Len(response.result.fixedFiles) > 0

\* C1: a run never makes more than 3 generateContent calls
C1_AtMostThreeCalls == calls <= 3

C1_Witness == pc = "returned" /\ calls = 3

\* C2: if every model call settles and the code keeps running, every run
\* ends by returning a result or throwing
C2_RunTerminates == <>Terminal

C2_Witness == pc = "thrown" /\ error = "transport" /\ calls = 3

ArchiveErrors == {"zip_load", "missing_replit"}

\* C3 as stated: a finished run made zero model calls only if the Archive
\* Reader failed
C3_Original == (Terminal /\ calls = 0) => error \in ArchiveErrors

\* C3 amended: a finished run made zero model calls only if the Archive
\* Reader failed or API_KEY is not set; every other run that ends has made
\* at least one call
C3_ZeroCallsOnlyArchiveOrApiKey ==
    (Terminal /\ calls = 0) => error \in ArchiveErrors \cup {"api_key"}

C3_Witness == pc = "thrown" /\ calls = 0 /\ error = "api_key"

\* C4: once a response with an empty fixedFiles has arrived, no call is
\* made and the working file set is not changed again, the loop is left at
\* that iteration, and the returned plan has that response's five fields
C4_EmptyFixesStopLoop ==
    /\ [][EmptyFixResponse =>
            /\ calls' = calls
            /\ currentFiles' = currentFiles
            /\ response' = response
            /\ pc' \in {"afterLoop", "returned"}]_vars
    /\ [][(pc \in {"loop", "awaiting"}) => currentFiles' = currentFiles]_vars
    /\ [](EmptyFixResponse /\ pc = "returned" =>
            /\ PlanHasFieldsOf(result[1].plan, response.result)
            /\ result[1].finalFiles = currentFiles)

C4_Witness ==
    pc = "returned" /\ EmptyFixResponse /\ calls = 2 /\ changes = 1

\* C5: when processing a non-empty fix batch leaves the working file set as
\* it was, the loop is left in that step with that response's draft as the
\* plan, and from then on no call is made and the plan fields and the file
\* set stay as they are
C5_NoOpBatchStopsLoop ==
    /\ [][(pc = "received" /\ NonEmptyFixResponse /\ currentFiles' = currentFiles) =>
            /\ pc' = "afterLoop"
            /\ finalPlan' # Null
            /\ PlanHasFieldsOf(finalPlan'[1], response.result)]_vars
    /\ [][(pc \in {"afterLoop", "returned"}) =>
            /\ calls' = calls
            /\ currentFiles' = currentFiles
            /\ response' = response
            /\ pc' = "returned"
            /\ PlanHasFieldsOf(finalPlan'[1], response.result)]_vars

C5_Witness ==
    /\ pc = "returned"
    /\ NonEmptyFixResponse
    /\ i < MAX_ITERATIONS
    /\ calls = 2
    /\ changes = 1

\* the last entry for each sanitized name of the batch is in the file set
IncludesFixes(files, fixedFiles) ==
    \A k \in 1..Len(fixedFiles) :
        LET clean == sanitizePath(fixedFiles[k].fileName)
        IN  (/\ clean # <<>>
             /\ \A j \in (k + 1)..Len(fixedFiles) :
                    sanitizePath(fixedFiles[j].fileName) # clean)
            => /\ HasOwn(files, clean)
               /\ Get(files, clean) = fixedFiles[k].fileContent

\* C6: a run whose three iterations each changed the working file set does
\* not throw; it returns, with the third response's draft as the plan and the
\* third batch's fixes in the final file set
C6_ExhaustedBudgetSucceeds ==
    /\ [](changes = 3 =>
            /\ pc \in {"loop", "afterLoop", "returned"}
            /\ error = "none"
            /\ (pc = "returned" =>
                    /\ PlanHasFieldsOf(result[1].plan, response.result)
                    /\ IncludesFixes(result[1].finalFiles, response.result.fixedFiles)))
    /\ (changes = 3 ~> pc = "returned")

C6_Witness ==
    /\ pc = "returned"
    /\ changes = 3
    /\ HasOwn(result[1].finalFiles, Dockerfile)

FailedResponse ==
    response.kind \in {"rejected", "no_text", "unparsable", "no_fixedFiles"}

\* C7: when the call of an iteration rejects or its response cannot be
\* parsed into a result with a fixedFiles list, the run throws in the next
\* step, nothing is returned, and no call is made afterwards
C7_FailedCallThrows ==
    /\ [][FailedResponse =>
            /\ pc' = "thrown"
            /\ error' # "none"
            /\ result' = Null
            /\ calls' = calls]_vars
    /\ [](pc = "thrown" => result = Null)

C7_Witness ==
    /\ pc = "thrown"
    /\ response.kind = "unparsable"
    /\ calls = 3
    /\ changes = 2

\* C8: a returned result carries a plan with the five fields of the response
\* of the last call; a run that ends without a draft ends thrown
C8_NeverNullPlan ==
    /\ (pc = "returned" =>
            /\ result # Null
            /\ finalPlan # Null
            /\ response.kind = "ok"
            /\ PlanHasFieldsOf(result[1].plan, response.result)
            /\ result[1].plan.projectType # Undefined)
    /\ (pc # "returned" => result = Null)
    /\ (Terminal /\ finalPlan = Null => pc = "thrown")

C8_Witness ==
    /\ pc = "returned"
    /\ calls = 3
    /\ result[1].plan.projectType = "python"

\* paths of the final set that are new or whose content differs from the original
ChangedPaths(A, B) ==
    {p \in KeySet(B) : ~HasOwn(A, p) \/ Get(A, p) # Get(B, p)}

\* C9: while the loop runs and until the diff is taken, the draft's
\* suggestedFixes is empty and has not been assigned; in a returned run it has
\* been assigned once and names the paths that differ between the original
\* and the final file set
C9_FixesAssignedOnceAfterLoop ==
    /\ (Iterating \/ pc = "afterLoop") =>
            /\ fixesAssigned = 0
            /\ (finalPlan # Null => finalPlan[1].suggestedFixes = <<>>)
    /\ pc = "returned" =>
            /\ fixesAssigned = 1
            /\ {result[1].plan.suggestedFixes[k].fileName :
                    k \in 1..Len(result[1].plan.suggestedFixes)}
               = ChangedPaths(initialProjectFiles, result[1].finalFiles)

C9_Witness ==
    /\ pc = "returned"
    /\ fixesAssigned = 1
    /\ calls = 2
    /\ Len(result[1].plan.suggestedFixes) = 1

CountFixes(fixes, p, d) ==
    Cardinality({k \in 1..Len(fixes) : fixes[k].fileName = p /\ fixes[k].description = d})

\* C10: the returned suggestedFixes has exactly one "modified" entry for each
\* path in both sets with different content, exactly one "added" entry for
\* each path only in the final set, no other entry, and each entry's
\* suggestedCode is the final content of its path
C10_DiffIsExact ==
    pc = "returned" =>
        LET A == initialProjectFiles
            B == result[1].finalFiles
            fixes == result[1].plan.suggestedFixes
        IN  /\ \A k \in 1..Len(fixes) :
                /\ fixes[k].description \in {ModifiedDescription, AddedDescription}
                /\ HasOwn(B, fixes[k].fileName)
                /\ fixes[k].suggestedCode = Get(B, fixes[k].fileName)
            /\ \A p \in KeySet(A) \cup KeySet(B) :
                /\ CountFixes(fixes, p, ModifiedDescription) =
                      IF HasOwn(A, p) /\ HasOwn(B, p) /\ Get(A, p) # Get(B, p)
                      THEN 1 ELSE 0
                /\ CountFixes(fixes, p, AddedDescription) =
                      IF HasOwn(B, p) /\ ~HasOwn(A, p) THEN 1 ELSE 0

C10_Witness ==
    /\ pc = "returned"
    /\ Len(initialProjectFiles) = 2
    /\ Len(result[1].finalFiles) = 3
    /\ Len(result[1].plan.suggestedFixes) = 2
    /\ \E k \in 1..2 : result[1].plan.suggestedFixes[k].description = ModifiedDescription

\* the original set of the end-to-end scenario: .replit and app.py = "print(1)"
ScenarioOriginal ==
    /\ KeySet(initialProjectFiles) = {ReplitPath, AppPy}
    /\ Get(initialProjectFiles, AppPy) = "print(1)"

\* the response of iteration 0 in the scenario
ScenarioFirstResponse ==
    /\ response.kind = "ok"
    /\ response.result.fixedFiles = <<[fileName |-> AppPy, fileContent |-> "print(2)"]>>

\* the working set after the scenario's first merge
ScenarioFiles(files) ==
    /\ KeySet(files) = {ReplitPath, AppPy}
    /\ Get(files, AppPy) = "print(2)"
    /\ Get(files, ReplitPath) = Get(initialProjectFiles, ReplitPath)

\* the scenario from the end of iteration 0 on: the second call is issued,
\* answered by an empty fixedFiles, and the run ends
ScenarioSecondIteration ==
    /\ ScenarioOriginal
    /\ ScenarioFiles(currentFiles)
    /\ i = 1
    /\ \/ pc = "loop" /\ calls = 1
       \/ pc = "awaiting" /\ calls = 2
       \/ pc \in {"received", "afterLoop", "returned"} /\ calls = 2 /\ EmptyFixResponse

\* C11: from the original set {.replit, app.py = "print(1)"}, a first
\* response with fixedFiles = [{app.py, "print(2)"}] leads to a second
\* iteration; when the second response has an empty fixedFiles the run
\* returns after exactly 2 calls, with app.py = "print(2)" in the final set
\* and a suggestedFixes of exactly one entry, "modified", for app.py
C11_EndToEnd ==
    /\ [][(/\ pc = "received" /\ calls = 1 /\ i = 0
            /\ ScenarioOriginal
            /\ currentFiles = initialProjectFiles
            /\ ScenarioFirstResponse)
           => (pc' = "loop" /\ ScenarioSecondIteration')]_vars
    /\ [][(ScenarioSecondIteration /\ (pc = "awaiting" => EmptyFixResponse'))
           => (/\ ScenarioSecondIteration'
               /\ pc' \in {"awaiting", "received", "afterLoop", "returned"})]_vars
    /\ [](ScenarioSecondIteration /\ pc = "returned" =>
            /\ calls = 2
            /\ ScenarioFiles(result[1].finalFiles)
            /\ result[1].plan.suggestedFixes =
                  <<[fileName |-> AppPy, description |-> ModifiedDescription,
                     suggestedCode |-> "print(2)"]>>)

C11_Witness ==
    /\ pc = "returned"
    /\ ScenarioSecondIteration
    /\ Len(result[1].plan.suggestedFixes) = 1

\* sum of the content lengths of the entries of an object
TotalLength[obj \in Obj] ==
    IF obj = <<>> THEN 0 ELSE Length(Head(obj).content) + TotalLength[Tail(obj)]

\* C12: the content lengths of the files selected for the prompt never sum
\* to more than the budget of 200000, whatever the working file set
C12_PromptWithinBudget ==
    /\ TotalLength[filesForPrompt] <= 200000
    /\ \A k \in 1..Len(filesForPrompt) :
          /\ HasOwn(currentFiles, filesForPrompt[k].name)
          /\ Get(currentFiles, filesForPrompt[k].name) = filesForPrompt[k].content

C12_Witness ==
    /\ pc = "awaiting"
    /\ TotalLength[currentFiles] > 200000
    /\ TotalLength[filesForPrompt] = 200000
    /\ Len(filesForPrompt) = 2

IsPriorityName(fileName) ==
    \E k \in 1..Len(priorityFiles) : priorityFiles[k] = fileName

\* content length of the priority files before position k that are in the prompt
PriorityLengthBefore(k) ==
    TotalLength[SelectSeq(filesForPrompt,
        LAMBDA e : \E j \in 1..(k - 1) : priorityFiles[j] = e.name)]

\* the priority file at position k is in the working set and fits in the
\* budget left by the priority files before it
PriorityFileFits(k) ==
    /\ HasOwn(currentFiles, priorityFiles[k])
    /\ PriorityLengthBefore(k) + Length(Get(currentFiles, priorityFiles[k])) <= 200000

\* the file is in the prompt, ahead of every file that is not priority-listed
AheadOfOtherFiles(fileName) ==
    /\ HasOwn(filesForPrompt, fileName)
    /\ \A j \in 1..Len(filesForPrompt) :
          ~IsPriorityName(filesForPrompt[j].name)
              => IndexOf(filesForPrompt, fileName) < j

\* C13: when the prompt has been assembled, every priority-listed file of
\* the working set that fits in the budget remaining at its turn is in the
\* prompt, ahead of every file that is not priority-listed, and a priority
\* file that does not fit is not in the prompt
C13_PriorityFilesFirst ==
    pc = "awaiting" =>
        \A k \in 1..Len(priorityFiles) :
            /\ PriorityFileFits(k) => AheadOfOtherFiles(priorityFiles[k])
            /\ (HasOwn(currentFiles, priorityFiles[k]) /\ ~PriorityFileFits(k))
                  => ~HasOwn(filesForPrompt, priorityFiles[k])

\* the entry was taken into the prompt by the priority phase
TakenAsPriority(e) == IsPriorityName(e.name) /\ e.content # ""

\* the file of the working set is a candidate of the second phase: it has a
\* source extension, is not excluded and was not taken by the priority phase
EligibleCandidate(e) ==
    /\ sourceFileExtensions(e.name)
    /\ ~excludedFilesOrDirs(e.name)
    /\ ~(HasOwn(filesForPrompt, e.name) /\ TakenAsPriority(e))

Candidates == {currentFiles[k] : k \in 1..Len(currentFiles)} \cap
              {e \in Entry : EligibleCandidate(e)}

SortsBefore(c, d) == CollationRank(c.name) < CollationRank(d.name)

\* C14: when the prompt has been assembled, the files it holds beyond those
\* of the priority phase are candidates, in path order, and form a prefix of
\* the path-sorted candidates: no candidate sorted after a candidate that was
\* left out is in the prompt, and the first candidate left out is one whose
\* content would push the total over the budget
C14_GreedyPrefix ==
    pc = "awaiting" =>
        /\ \A k \in 1..Len(filesForPrompt) :
              ~TakenAsPriority(filesForPrompt[k]) =>
                  /\ filesForPrompt[k] \in Candidates
                  /\ \A j \in 1..(k - 1) :
                        \/ TakenAsPriority(filesForPrompt[j])
                        \/ SortsBefore(filesForPrompt[j], filesForPrompt[k])
        /\ \A c, d \in Candidates :
              (SortsBefore(c, d) /\ HasOwn(filesForPrompt, d.name))
                  => HasOwn(filesForPrompt, c.name)
        /\ \A c \in Candidates :
              (/\ ~HasOwn(filesForPrompt, c.name)
               /\ \A b \in Candidates :
                     SortsBefore(b, c) => HasOwn(filesForPrompt, b.name))
                  => TotalLength[filesForPrompt] + Length(c.content) > 200000

C14_Witness ==
    /\ pc = "awaiting"
    /\ HasOwn(filesForPrompt, ReplitPath)
    /\ HasOwn(currentFiles, AppPy)
    /\ ~HasOwn(filesForPrompt, AppPy)
    /\ HasOwn(currentFiles, ServerJs)
    /\ ~HasOwn(filesForPrompt, ServerJs)
    /\ TotalLength[filesForPrompt] + Length(Get(currentFiles, ServerJs)) <= 200000

\* C15: the step that assembles the prompt and issues the call leaves the
\* working file set as it was at the start of the iteration, the set is the
\* same when the call settles, and the only step of an iteration that
\* changes it is the one that merges a fix batch
C15_AssemblyReadsOnly ==
    /\ [][(pc \in {"loop", "awaiting"}) => currentFiles' = currentFiles]_vars
    /\ [][(Iterating /\ currentFiles' # currentFiles) =>
            /\ pc = "received"
            /\ NonEmptyFixResponse
            /\ currentFiles' =
                  ApplyUpdates(currentFiles, newUpdates(response.result.fixedFiles)).files]_vars

C15_Witness ==
    /\ pc = "awaiting"
    /\ i = 1
    /\ changes = 1
    /\ Len(filesForPrompt) = 2
    /\ Len(currentFiles) = 3

\* position k of s starts a segment, or ends one, when s is split on "/"
SegmentStartsAt(s, k) == s[k] # "/" /\ (k = 1 \/ s[k - 1] = "/")
SegmentEndsAt(s, k) == s[k] # "/" /\ (k = Len(s) \/ s[k + 1] = "/")

HasDotSegment(s) ==
    \E k \in 1..Len(s) :
        s[k] = "." /\ SegmentStartsAt(s, k) /\ SegmentEndsAt(s, k)

HasDotDotSegment(s) ==
    \E k \in 1..(Len(s) - 1) :
        /\ s[k] = "." /\ s[k + 1] = "."
        /\ SegmentStartsAt(s, k) /\ SegmentEndsAt(s, k + 1)

\* C16: whatever the input string, the string sanitizePath returns has no
\* segment "." and no segment ".." when split on "/", and does not start
\* with "/"
C16_NoTraversalSegments ==
    pc = "sanitized" =>
        /\ ~HasDotSegment(cleanPath)
        /\ ~HasDotDotSegment(cleanPath)
        /\ (cleanPath # <<>> => cleanPath[1] # "/")

C16_Witness ==
    /\ pc = "sanitized"
    /\ HasDotDotSegment(rawPath)
    /\ rawPath[1] = "/"
    /\ cleanPath = <<"a">>

\* positions of s that are not leading or trailing whitespace
TrimmedPositions(s) ==
    {k \in 1..Len(s) :
        /\ \E j \in 1..k : s[j] # " "
        /\ \E j \in k..Len(s) : s[j] # " "}

IsSeparator(t) == t = "/" \/ t = "\\"

\* positions j..k of s are a whole segment of the trimmed string split on
\* "/" and "\\"
IsSegment(s, j, k) ==
    /\ j <= k
    /\ {j, k} \subseteq TrimmedPositions(s)
    /\ \A m \in j..k : ~IsSeparator(s[m])
    /\ (j - 1) \in TrimmedPositions(s) => IsSeparator(s[j - 1])
    /\ (k + 1) \in TrimmedPositions(s) => IsSeparator(s[k + 1])

\* a segment that is neither "." nor ".."
IsKeptSegment(s, j, k) ==
    /\ IsSegment(s, j, k)
    /\ ~(j = k /\ s[j] = ".")
    /\ ~(k = j + 1 /\ s[j] = "." /\ s[k] = ".")

\* the kept segments of s, as pairs of their first and last position
KeptSegments(s) ==
    {jk \in (1..Len(s)) \X (1..Len(s)) : IsKeptSegment(s, jk[1], jk[2])}

\* positions of s that are in the result: those of the kept segments, and
\* for every kept segment but the first the separator right before it
KeptPositions(s) ==
    LET segs == KeptSegments(s)
    IN  {m \in 1..Len(s) :
            \E jk \in segs :
                \/ m \in jk[1]..jk[2]
                \/ m = jk[1] - 1 /\ \E ab \in segs : ab[2] < m}

\* the kept positions of s in their order, separators written as "/"
ExpectedClean(s) ==
    LET kept == KeptPositions(s)
    IN  [n \in 1..Cardinality(kept) |->
            LET m == CHOOSE q \in kept : Cardinality({r \in kept : r <= q}) = n
            IN  IF IsSeparator(s[m]) THEN "/" ELSE s[m]]

\* the general part of C17: sanitizePath returns, and its result is the
\* input trimmed, split on "/" and "\", without the empty, "." and ".."
\* segments, the others joined by "/" in their order
SanitizeAsDescribed ==
    /\ error = "none"
    /\ cleanPath = ExpectedClean(rawPath)
    /\ rawPath = <<>> => cleanPath = <<>>
    /\ rawPath = ASlashSlashB => cleanPath = <<"a", "/", "b", "/", "c">>
    /\ rawPath = ABackslashB => cleanPath = <<"a", "/", "b", "/", "c">>

\* C17 as stated: the general part, with sanitizePath("") = "",
\* sanitizePath("a//b/./c") = sanitizePath("a\b\c") = "a/b/c", and
\* sanitizePath("../../x") = ""
C17_Original ==
    pc = "sanitized" =>
        /\ SanitizeAsDescribed
        /\ rawPath = DotDotDotDotX => cleanPath = <<>>

\* C17 amended: the general part with the same examples, except that
\* sanitizePath("../../x") = "x"
C17_SanitizeAsDescribed ==
    pc = "sanitized" =>
        /\ SanitizeAsDescribed
        /\ rawPath = DotDotDotDotX => cleanPath = <<"x">>

C17_Witness ==
    /\ pc = "sanitized"
    /\ rawPath = DotDotDotDotX
    /\ cleanPath = <<"x">>

\* the batch of the response has an entry whose fileName sanitizes to ""
HasInvalidEntry ==
    /\ response.kind = "ok"
    /\ \E k \in 1..Len(response.result.fixedFiles) :
          sanitizePath(response.result.fixedFiles[k].fileName) = <<>>

\* the sanitized names of the entries of a batch that are not empty
ValidNames(fixedFiles) ==
    {sanitizePath(fixedFiles[k].fileName) : k \in 1..Len(fixedFiles)} \ {<<>>}

\* C18: processing a batch that has an entry whose fileName sanitizes to
\* the empty string does not throw; the keys of the working file set after
\* it are the keys before it and the non-empty sanitized names of the batch,
\* the other entries are applied, and the loop goes on or ends as the
\* changes made by the other entries decide; the empty string is never a key
C18_InvalidEntryDropped ==
    /\ [][(pc = "received" /\ HasInvalidEntry) =>
            /\ error' = "none"
            /\ KeySet(currentFiles') =
                  KeySet(currentFiles) \cup ValidNames(response.result.fixedFiles)
            /\ IncludesFixes(currentFiles', response.result.fixedFiles)
            /\ IF currentFiles' # currentFiles
               THEN pc' = "loop" /\ i' = i + 1
               ELSE pc' = "afterLoop"]_vars
    /\ [](~HasOwn(currentFiles, <<>>))
    /\ []((pc = "afterLoop" /\ HasInvalidEntry) => finalPlan # Null)

C18_Witness ==
    /\ pc = "returned"
    /\ HasInvalidEntry
    /\ Len(response.result.fixedFiles) = 2
    /\ changes = 3
    /\ HasOwn(result[1].finalFiles, Dockerfile)

\* the path is relative, has no empty segment, no segment "." or "..", and
\* no backslash
IsCleanKey(p) ==
    /\ p # <<>>
    /\ p[1] # "/"
    /\ p[Len(p)] # "/"
    /\ \A k \in 1..(Len(p) - 1) : ~(p[k] = "/" /\ p[k + 1] = "/")
    /\ \A k \in 1..Len(p) : p[k] # "\\"
    /\ ~HasDotSegment(p)
    /\ ~HasDotDotSegment(p)

\* a raw fileName of the batch that sanitizePath changes gave the key
BatchGaveKey(files) ==
    /\ response.kind = "ok"
    /\ \E k \in 1..Len(response.result.fixedFiles) :
          LET raw == response.result.fixedFiles[k].fileName
          IN  /\ ~IsCleanKey(raw)
              /\ HasOwn(files, sanitizePath(raw))

\* C19: the keys of the extracted archive being clean, every key of the
\* working file set, and of the final file set returned, is a relative path
\* with no empty segment, no segment "." or "..", and no backslash
C19_KeysStayClean ==
    /\ \A p \in KeySet(initialProjectFiles) : IsCleanKey(p)
    /\ \A p \in KeySet(currentFiles) : IsCleanKey(p)
    /\ pc = "returned" => \A p \in KeySet(result[1].finalFiles) : IsCleanKey(p)

C19_Witness ==
    /\ pc = "returned"
    /\ BatchGaveKey(result[1].finalFiles)
    /\ Len(result[1].finalFiles) = 3

\* the step issues a model call
IssuesCall == calls' = calls + 1

\* C20: at most one model call of a run is in flight at any time; a call is
\* issued only when no call is in flight, every earlier call has settled and
\* the fixes of every earlier response have been merged; and between the
\* issue of a call and the merge of its fixes no other call is issued
C20_CallsAreSequential ==
    /\ [](inFlight <= 1)
    /\ [][IssuesCall =>
            /\ inFlight = 0
            /\ merges = calls
            /\ i = calls
            /\ inFlight' = 1]_vars
    /\ [][(pc \in {"awaiting", "received"}) => ~IssuesCall]_vars
    /\ [](inFlight = 1 <=> pc = "awaiting")

C20_Witness ==
    /\ pc = "awaiting"
    /\ calls = 3
    /\ inFlight = 1
    /\ merges = 2

\* generateDeploymentPlanAndFixes has made its copy of the input
Entered == pc \in {"loop", "awaiting", "received", "afterLoop", "returned"}

\* C30: the convergence loop never removes a file: in every state of a run
\* every path of the original input file set is a key of the working file
\* set, no step of the run takes a key out of the working file set, and the
\* key set of the final file set returned is a superset of the input's
C30_NoFileRemoved ==
    /\ [](Entered => KeySet(initialProjectFiles) \subseteq KeySet(currentFiles))
    /\ [][Entered => KeySet(currentFiles) \subseteq KeySet(currentFiles')]_vars
    /\ [](pc = "returned" =>
            KeySet(initialProjectFiles) \subseteq KeySet(result[1].finalFiles))

C30_Witness ==
    /\ pc = "returned"
    /\ merges = 2
    /\ Cardinality(KeySet(result[1].finalFiles)) >
           Cardinality(KeySet(initialProjectFiles))

\* the entries of a batch under their sanitized names, in batch order, the
\* entries whose name sanitizes to the empty string left out
SanitizedEntries[fixes \in FixList] ==
    IF fixes = <<>> THEN <<>>
    ELSE LET name == sanitizePath(Head(fixes).fileName)
             rest == SanitizedEntries[Tail(fixes)]
         IN  IF name = <<>> THEN rest
             ELSE <<[name |-> name, content |-> Head(fixes).fileContent]>> \o rest

\* the step merges a non-empty batch into the working file set
MergesBatch ==
    /\ pc = "received"
    /\ response.kind = "ok"
    /\ Len(response.result.fixedFiles) > 0

\* the loop goes on after the merge: the iteration was marked changed
MarkedChanged == pc' = "loop"

\* the batch has two entries with the same sanitized name
HasDuplicateName(fixes) ==
    \E j, k \in 1..Len(SanitizedEntries[fixes]) :
        j # k /\ SanitizedEntries[fixes][j].name = SanitizedEntries[fixes][k].name

\* C26 as stated: every sanitized entry of the batch, duplicates included, is
\* applied in batch order against the file set as the entries before it left
\* it, and the iteration is marked changed when any one of them is written
C26_Original ==
    [][MergesBatch =>
         LET entryByEntry == ApplyUpdates(currentFiles,
                                 SanitizedEntries[response.result.fixedFiles])
         IN  /\ currentFiles' = entryByEntry.files
             /\ MarkedChanged <=> entryByEntry.filesWereUpdated]_vars

\* content of the last of the sanitized entries es with the name
LastContent(es, name) ==
    LET last == CHOOSE k \in 1..Len(es) :
                    /\ es[k].name = name
                    /\ \A j \in (k + 1)..Len(es) : es[j].name # name
    IN  es[last].content

\* C26: the sanitized entries of a batch are collapsed by name before the
\* merge, the last entry for a name replacing the earlier ones; a collapsed
\* entry is written when its name is absent from the working file set or maps
\* to different content, and the iteration is marked changed exactly when
\* some collapsed entry is written; the other files are left as they are
C26_MergeCollapsed ==
    [][MergesBatch =>
         LET es == SanitizedEntries[response.result.fixedFiles]
             names == KeySet(es)
         IN  /\ KeySet(currentFiles') = KeySet(currentFiles) \cup names
             /\ \A name \in names :
                    Get(currentFiles', name) = LastContent(es, name)
             /\ \A name \in KeySet(currentFiles) \ names :
                    Get(currentFiles', name) = Get(currentFiles, name)
             /\ MarkedChanged <=>
                    \E name \in names :
                        \/ ~HasOwn(currentFiles, name)
                        \/ Get(currentFiles, name) # LastContent(es, name)]_vars

C26_Witness ==
    /\ pc = "afterLoop"
    /\ merges = 1
    /\ changes = 0
    /\ response.kind = "ok"
    /\ HasDuplicateName(response.result.fixedFiles)
    /\ Get(currentFiles, AppPy) = "print(1)"
    /\ LastContent(SanitizedEntries[response.result.fixedFiles], AppPy) = "print(1)"
    /\ response.result.fixedFiles[1].fileContent = "print(2)"

\* the objects with the entries of obj in another insertion order
Reorderings(obj) ==
    { [k \in 1..Len(obj) |-> obj[p[k]]] : p \in Permutations(1..Len(obj)) }

\* the files included in a prompt subset: names with their contents
Included(subset) == {subset[k] : k \in 1..Len(subset)}

\* C27: the set of files included in the prompt depends on the path-to-content
\* mapping of the working file set only: a working file set with the same
\* entries in any other insertion order yields the same set of included files
C27_OrderIndependent ==
    pc = "awaiting" =>
        \A other \in Reorderings(currentFiles) :
            Included(AssemblePrompt(other).filesForPrompt) = Included(filesForPrompt)

\* the step is the end of processZipFile for run r, its archive read
ArchiveRead(r) == ZipResolves(r)

\* the step ends run r with the missing-.replit error shown
FailsMissingReplit(r) ==
    /\ runs' = Finish(r)
    /\ state'.status = "error"
    /\ state'.error = <<"missing_replit">>

\* C22: processZipFile fails with the missing-.replit error exactly when the
\* extracted file set has no file named .replit; on that failure the run
\* ends without a model call and the app is in the error state; whenever the
\* extracted set has a .replit file processZipFile succeeds and the run goes
\* on into generateDeploymentPlanAndFixes
C22_MissingReplitOnly ==
    [][\A r \in RunIds :
          ArchiveRead(r) =>
             /\ FailsMissingReplit(r) <=> ~HasOwn(runs[r].zip.files, ReplitPath)
             /\ HasOwn(runs[r].zip.files, ReplitPath) =>
                   IF apiKey
                   THEN Len(runs') = Len(runs) /\ runs'[r].stage = "call"
                   ELSE state'.error = <<"api_key">>]_vars

\* the step ends an analysis run with a fatal failure
RunFails ==
    \/ \E file \in AppZips : HandleFileSelect(file, FALSE)
    \/ \E r \in RunIds :
          \/ ZipRejects(r)
          \/ ZipResolves(r) /\ runs' = Finish(r)
          \/ CallRejects(r)
          \/ \E e \in {"type_error", "invalid_response"} : ResponseInvalid(r, e)

\* C25: when an analysis run fails fatally the app state it leaves has status
\* 'error', one error message, and neither a deployment plan nor fixed files
C25_NoPartialResult ==
    [][RunFails =>
          /\ state'.status = "error"
          /\ Len(state'.error) = 1
          /\ state'.deploymentPlan = Null
          /\ state'.fixedProjectFiles = Null]_vars

\* ---------------------------------------------------------------------------
\* C23: the downloaded archive and the file mapping pushed to the source host
\* both hold render.yaml with the content of the final plan's renderYaml,
\* whatever render.yaml the final file set holds; every other path carries
\* the content of the final file set; and no step of the download or of the
\* push modifies the stored final file set.
\* ---------------------------------------------------------------------------
WithManifest(files) ==
    /\ HasOwn(files, RenderYaml)
    /\ Get(files, RenderYaml) = state.deploymentPlan[1].renderYaml
    /\ KeySet(files) = KeySet(state.fixedProjectFiles[1]) \cup {RenderYaml}
    /\ \A name \in KeySet(state.fixedProjectFiles[1]) \ {RenderYaml} :
          Get(files, name) = Get(state.fixedProjectFiles[1], name)

C23_ManifestInjected ==
    /\ [](downloaded # Null => WithManifest(downloaded[1].files))
    /\ [](requested.commit # Null => WithManifest(requested.commit[1].files))
    /\ [][state'.fixedProjectFiles = state.fixedProjectFiles]_vars

C23_Witness ==
    /\ downloaded # Null
    /\ requested.commit # Null
    /\ HasOwn(state.fixedProjectFiles[1], RenderYaml)
    /\ Get(state.fixedProjectFiles[1], RenderYaml) # state.deploymentPlan[1].renderYaml

\* ---------------------------------------------------------------------------
\* C24: when the model call of diagnoseGitHubError fails (the call rejects,
\* or its response carries no text), diagnoseGitHubError does not throw: it
\* returns its fallback message, which embeds the raw error string, and that
\* message is what the component shows.
\* ---------------------------------------------------------------------------
Embeds(message, rawErrorMessage) ==
    \E k \in 1..Len(message) : message[k] = rawErrorMessage

C24_DiagnosisFailureContained ==
    [][\A p \in PendingIds, outcome \in DiagnosisOutcomes :
          (outcome.kind # "text" /\ DiagnosisSettles(p, outcome)) =>
              LET diagnosed == diagnoseGitHubError(pending[p].rawErrorMessage, outcome)
              IN  /\ ~diagnosed.threw
                  /\ Embeds(diagnosed.value, pending[p].rawErrorMessage)
                  /\ section'.githubError = <<diagnosed.value>>
                  /\ section'.githubError =
                        <<DiagnosisFallback(pending[p].rawErrorMessage)>>]_vars

C24_Witness ==
    /\ section.githubStatus = "error"
    /\ ~section.isDiagnosingError
    /\ \E rawErrorMessage \in RawErrors :
          section.githubError = <<DiagnosisFallback(rawErrorMessage)>>

\* ---------------------------------------------------------------------------
\* C28: in a push submission the commit is issued only for a repository whose
\* creation has succeeded; repoSuccessData is set and githubStatus becomes
\* 'success' only when the commit of a created repository resolves; and when
\* the creation or the commit fails, repoSuccessData is null and
\* githubStatus is 'error' afterwards.
\* ---------------------------------------------------------------------------
CommitAfterCreation ==
    /\ [](requested.commit # Null => requested.commit[1].repoName \in requested.repos)
    /\ [][requested'.commit # requested.commit =>
             \E p \in PendingIds : CreateRepoResolves(p)]_vars

SuccessAfterBoth ==
    [][(\/ section'.repoSuccessData # Null /\ section.repoSuccessData = Null
        \/ section'.githubStatus = "success" /\ section.githubStatus # "success") =>
          \E p \in PendingIds :
              /\ CommitResolves(p)
              /\ pending[p].repoName \in requested.repos]_vars

PushFails ==
    \E p \in PendingIds, rawErrorMessage \in RawErrors :
        CreateRepoRejects(p, rawErrorMessage) \/ CommitRejects(p, rawErrorMessage)

FailureLeavesNoSuccess ==
    [][PushFails =>
          section'.repoSuccessData = Null /\ section'.githubStatus = "error"]_vars

C28_PushOrdering ==
    CommitAfterCreation /\ SuccessAfterBoth /\ FailureLeavesNoSuccess

\* ---------------------------------------------------------------------------
\* C29: createBlueprint is requested only in a state where a push has
\* succeeded and a hosting token and an owner are set, and the request
\* carries that token, that owner and the repository URL that the successful
\* push recorded.
\* ---------------------------------------------------------------------------
C29_DeployAfterPush ==
    [][HandleDeployToRender =>
          /\ section.repoSuccessData # Null
          /\ section.renderToken # Null
          /\ section.selectedRenderOwnerId # Null
          /\ requested'.blueprint # Null
          /\ requested'.blueprint[1].repoUrl \in requested.pushed
          /\ requested'.blueprint[1].repoUrl = section.repoSuccessData[1].url
          /\ requested'.blueprint[1].token = section.renderToken[1]
          /\ requested'.blueprint[1].ownerId = section.selectedRenderOwnerId[1]]_vars

C29_Witness ==
    /\ requested.blueprint # Null
    /\ requested.blueprint[1].repoUrl \in requested.pushed
    /\ section.renderSuccessData # Null

\* ---------------------------------------------------------------------------
\* C21: when the steps of two runs of generateDeploymentPlanAndFixes
\* interleave, each run's working file set, loop index and draft plan change
\* only in that run's own steps, and at every moment they, the run's error
\* and the run's result equal those of the same run proceeding alone on the
\* same responses.
\* ---------------------------------------------------------------------------
Entered21(r) == duo.run[r].files # "none"

AsAlone(r) ==
    LET run == duo.run[r]
    IN  /\ Entered21(r) => duo.heap[run.files] = run.alone.files
        /\ duo.heap[run.input] = run.alone.input
        /\ run.finalPlan = run.alone.finalPlan
        /\ run.i = run.alone.i
        /\ run.error = run.alone.error
        /\ run.result = run.alone.result

OwnStepsOnly ==
    \A r \in DuoRuns :
        LET own == \/ DuoEnter(r)
                   \/ \E resp \in DuoResponses : DuoSettles(r, resp)
            before == duo.run[r]
            after == duo'.run[r]
        IN  ~own =>
              /\ after = before
              /\ Entered21(r) => duo'.heap[after.files] = duo.heap[before.files]

C21_RunsIndependent ==
    /\ [](\A r \in DuoRuns : AsAlone(r))
    /\ [][OwnStepsOnly]_vars

C21_Witness ==
    /\ duo.run[1].input = duo.run[2].input
    /\ duo.run[1].stage = "awaiting" /\ duo.run[2].stage = "awaiting"
    /\ duo.run[1].i = 1 /\ duo.run[2].i = 2
    /\ duo.run[1].finalPlan # duo.run[2].finalPlan
    /\ duo.heap[duo.run[1].files] # duo.heap[duo.run[2].files]

\* ---------------------------------------------------------------------------
\* C31: a file of the priority list that the priority phase skipped because
\* it exceeded the remaining budget is not among the candidates of the second
\* phase, so it is never the candidate at which the second phase stops.
\* ---------------------------------------------------------------------------
SkippedPriority(st) ==
    { priorityFiles[k] : k \in { j \in 1..Len(priorityFiles) :
          /\ Truthy(Get(st.currentFiles, priorityFiles[j]))
          /\ ~HasOwn(st.filesForPrompt, priorityFiles[j]) } }

\* the candidates that the second phase did not include
LeftOut(candidates, included) ==
    SelectSeq(candidates, LAMBDA e : ~HasOwn(included, e.name))

C31_SkippedPriorityNotCandidate ==
    pc = "awaiting" =>
        LET st == AfterPriority(currentFiles)
            candidates == otherFiles(st)
            left == LeftOut(candidates, filesForPrompt)
        IN  /\ KeySet(candidates) \cap SkippedPriority(st) = {}
            /\ left # <<>> => Head(left).name \notin SkippedPriority(st)

\* ---------------------------------------------------------------------------
\* C32: no step of a run writes the object the run was called with: after
\* any number of iterations and merges the object holds the keys and
\* contents it held when the run started, and the suggestedFixes of a
\* returned run are the difference between that original and the final files.
\* ---------------------------------------------------------------------------
OriginalInput(r) == duo.run[r].alone.input

C32_InputNotMutated ==
    /\ [](\A r \in DuoRuns :
            /\ duo.heap[duo.run[r].input] = OriginalInput(r)
            /\ duo.run[r].stage = "returned" =>
                  duo.run[r].result[1].plan.suggestedFixes =
                      ComputeSuggestedFixes(OriginalInput(r),
                                            duo.run[r].result[1].finalFiles))
    /\ [][\A r \in DuoRuns :
            duo'.heap[duo.run[r].input] = duo.heap[duo.run[r].input]]_vars

C32_Witness ==
    /\ duo.run[1].stage = "returned"
    /\ duo.run[1].i = 1
    /\ duo.heap[duo.run[1].files] # duo.heap[duo.run[1].input]
    /\ Len(duo.run[1].result[1].plan.suggestedFixes) = 1
    /\ duo.heap[duo.run[1].input] = OriginalInput(1)

\* ---------------------------------------------------------------------------
\* C33: sanitizePath is idempotent: the string it returns is returned
\* unchanged when sanitizePath is applied to it again.
\* ---------------------------------------------------------------------------
C33_Idempotent ==
    pc = "sanitized" => sanitizePath(cleanPath) = cleanPath

\* ---------------------------------------------------------------------------
\* C34: in every reachable app state, a RESET while a run is in flight
\* included, status 'success' implies that deploymentPlan, fixedProjectFiles
\* and zipFile are non-null, and status 'idle' implies that they are null
\* and that the progress log is empty.
\* ---------------------------------------------------------------------------
C34_StatusShape ==
    /\ state.status = "success" =>
          /\ state.deploymentPlan # Null
          /\ state.fixedProjectFiles # Null
          /\ state.zipFile # Null
    /\ state.status = "idle" =>
          /\ state.deploymentPlan = Null
          /\ state.fixedProjectFiles = Null
          /\ state.zipFile = Null
          /\ state.progressLogs = <<>>

\* ---------------------------------------------------------------------------
\* C35: a run that was started for an earlier file and settles after a RESET
\* and the selection of another file writes nothing into the app state: no
\* progress message, no result and no error; so the plan and the fixed files
\* of a 'success' state are those of a run for the selected zipFile.
\* ---------------------------------------------------------------------------
StepOfRun(r) ==
    \/ ZipRejects(r)
    \/ ZipResolves(r)
    \/ CallRejects(r)
    \/ \E e \in {"type_error", "invalid_response"} : ResponseInvalid(r, e)
    \/ ResponseStable(r, DraftA)
    \/ ResponseNoChange(r, DraftA)
    \/ \E content \in FixContents : ResponseChanges(r, DraftA, content)

\* run r was started for a file other than the one selected now
StartedForEarlierFile(r) ==
    /\ r \in 1..Len(runs)
    /\ state.zipFile # Null
    /\ state.zipFile[1] # runs[r].zip

C35_StaleRunWritesNothing ==
    [][\A r \in RunIds :
          (StartedForEarlierFile(r) /\ StepOfRun(r)) => state' = state]_vars

\* ---------------------------------------------------------------------------
\* C36: in every reachable app state the progress log has at most one entry
\* with status 'pending', and such an entry is the last one; the state that
\* PROCESSING_SUCCESS leaves has no pending entry, and the state that
\* PROCESSING_ERROR leaves has, when its log is not empty, a last entry with
\* status 'error'.
\* ---------------------------------------------------------------------------
PendingEntries(logs) == {k \in 1..Len(logs) : logs[k].status = "pending"}

\* the step ends a run of handleFileSelect: its last dispatch is
\* PROCESSING_SUCCESS or PROCESSING_ERROR
RunEnds == Len(runs') < Len(runs)

\* the step is a file selection that fails before its first await
SelectionFails == runs' = runs /\ state.status = "idle" /\ state'.status = "error"

C36_ProgressLogShape ==
    /\ [](PendingEntries(state.progressLogs) \subseteq {Len(state.progressLogs)})
    /\ [][(RunEnds /\ state'.status = "success") =>
             PendingEntries(state'.progressLogs) = {}]_vars
    /\ [][((RunEnds \/ SelectionFails) /\ state'.status = "error"
              /\ state'.progressLogs # <<>>) =>
             state'.progressLogs[Len(state'.progressLogs)].status = "error"]_vars

C36_Witness ==
    /\ state.status = "error"
    /\ Len(state.progressLogs) >= 5
    /\ state.progressLogs[Len(state.progressLogs)].status = "error"
    /\ \E k \in 1..Len(state.progressLogs) :
          state.progressLogs[k].message = Complete

\* ---------------------------------------------------------------------------
\* C37: after a push submission has failed, and given that its diagnosis
\* call settles, the component reaches a state with githubStatus 'error',
\* isDiagnosingError false and a githubError message.
\* ---------------------------------------------------------------------------
DiagnosisPending ==
    \E p \in 1..Len(pending) : pending[p].stage = "diagnoseGitHubError"

FailureShown ==
    /\ section.githubStatus = "error"
    /\ ~section.isDiagnosingError
    /\ section.githubError # Null

C37_FailureEventuallyShown == DiagnosisPending ~> FailureShown

\* ---------------------------------------------------------------------------
\* C38: for a successful run, every entry of the plan's suggestedFixes
\* agrees with the downloadable archive: the archive holds the entry's
\* fileName, with the entry's suggestedCode as its content.
\* ---------------------------------------------------------------------------
\* the archive handleDownloadFixedZip hands to the browser in this state
DownloadableArchive ==
    createAndDownloadZip(InjectManifest(state.fixedProjectFiles[1],
                                        state.deploymentPlan[1].renderYaml),
                         state.zipFile[1].name)

C38_FixesAgreeWithArchive ==
    (state.status = "success" /\ state.deploymentPlan # Null
        /\ state.fixedProjectFiles # Null /\ state.zipFile # Null) =>
        \A k \in 1..Len(state.deploymentPlan[1].suggestedFixes) :
            LET fix == state.deploymentPlan[1].suggestedFixes[k]
            IN  /\ HasOwn(DownloadableArchive.files, fix.fileName)
                /\ Get(DownloadableArchive.files, fix.fileName) = fix.suggestedCode

====
